---- MODULE Spec2Model ----
(***************************************************************************)
(* Indicator computation, signal generation and backtesting engine of      *)
(* BotCrypto (src/src/lib/trading.ts).                                     *)
(*                                                                         *)
(* JavaScript numbers are modelled as IEEE-754 doubles: a sign, a 53-bit     *)
(* significand kept in two 28-bit halves and a binary exponent, with the   *)
(* zeros of both signs, the subnormal numbers, Infinity, -Infinity and NaN. *)
(* Every operation rounds its exact result to nearest, ties to even, as the *)
(* operators +, -, * and / of the language do.                             *)
(***************************************************************************)
EXTENDS Integers, Sequences, FiniteSets, TLC

VARIABLES
    pc,              \* which call is in progress and where it stands
    data,            \* Kline[]: the candle series passed to the engine
    strategy,        \* StrategyParams passed to generateSignals
    now,             \* Date.now() / 1000 read by filterDataByTimeframe
    period,          \* period argument of the indicator call
    result,          \* value returned by the indicator / generateSignals call
    signals,         \* TradingSignal[] passed to calculateTradingStats
    initialCapital,  \* second argument of calculateTradingStats
    validSignals,    \* calculateTradingStats: signals after the alternation filter
    i,               \* calculateTradingStats: loop index
    currentCapital,  \* calculateTradingStats locals
    peakCapital,
    maxDrawdown,
    winningTrades,
    trades,
    stats,           \* value returned by calculateTradingStats
    dashboard,       \* TradingDashboard: the values of its useState hooks
    simulator,       \* TradingSimulator: the values of the hooks of its settings
    requests,        \* historical-data requests whose response has not arrived
    issued           \* the effect runs so far and what became of their requests

vars == <<pc, data, strategy, now, period, result, signals, initialCapital,
          validSignals, i, currentCapital, peakCapital, maxDrawdown,
          winningTrades, trades, stats, dashboard, simulator, requests, issued>>

-----------------------------------------------------------------------------
(* JavaScript numbers *)

\* 2^14 and 2^28: a significand is kept in two 28-bit halves, and split in four
\* 14-bit digits where it is multiplied or divided
B14 == 2^14

B28 == 2^28

\* the least exponent of a double's significand taken as an integer (2^-1074 is
\* the least positive double) and the greatest (the largest double is
\* (2^53 - 1) * 2^971)
MinExp == -(1022 + 52)

MaxExp == 1023 - 52

Finite(neg, exp, hi, lo) == [cls |-> "num", neg |-> neg, exp |-> exp, hi |-> hi, lo |-> lo]

Zero(neg) == Finite(neg, 0, 0, 0)

NaN == [cls |-> "nan", neg |-> FALSE, exp |-> 0, hi |-> 0, lo |-> 0]

PosInf == [cls |-> "inf", neg |-> FALSE, exp |-> 0, hi |-> 0, lo |-> 0]

NegInf == [cls |-> "inf", neg |-> TRUE, exp |-> 0, hi |-> 0, lo |-> 0]

Inf(neg) == IF neg THEN NegInf ELSE PosInf

IsNaN(x) == x.cls = "nan"

IsInf(x) == x.cls = "inf"

IsFinite(x) == x.cls = "num"

IsZero(x) == x.cls = "num" /\ x.hi = 0 /\ x.lo = 0

\* number of bits of n, 0 <= n < 2^31: b counts the bits known to lie below the
\* leading one
BitLen(n) ==
    LET Ones(b) == IF n \div 2^b >= 2 THEN b + 2 ELSE b + n \div 2^b
        Twos(b) == Ones(IF n \div 2^b >= 4 THEN b + 2 ELSE b)
        Fours(b) == Twos(IF n \div 2^b >= 16 THEN b + 4 ELSE b)
        Eights(b) == Fours(IF n \div 2^b >= 256 THEN b + 8 ELSE b)
    IN  Eights(IF n >= 65536 THEN 16 ELSE 0)

\* number of bits of hi * 2^28 + lo
BitLen2(hi, lo) == BitLen(IF hi > 0 THEN hi ELSE lo) + (IF hi > 0 THEN 28 ELSE 0)

\* the magnitude (hi * 2^28 + lo) * 2^exp on its way to a double: rb is the bit
\* shifted out of the significand last and st tells whether a bit below it is set
Bits(exp, hi, lo, st) == [exp |-> exp, hi |-> hi, lo |-> lo, rb |-> FALSE, st |-> st]

\* m with its significand shifted left by s bits and its exponent lowered by s;
\* the shifted significand is below 2^57
ShiftLeft(m, s) ==
    IF s = 0 THEN m
    ELSE IF s < 28
    THEN [m EXCEPT !.exp = m.exp - s,
                   !.hi = m.hi * 2^s + m.lo \div 2^(28 - s),
                   !.lo = (m.lo % 2^(28 - s)) * 2^s]
    ELSE [m EXCEPT !.exp = m.exp - s, !.hi = m.lo * 2^(s - 28), !.lo = 0]

\* m with its significand shifted right by s bits and its exponent raised by s,
\* rb being the bit shifted out last and st telling whether a bit shifted out
\* before it, or one below m, was set; m.hi < 2^29 and m.rb is not set
ShiftRight(m, s) ==
    IF s = 0 THEN m
    ELSE IF s < 28
    THEN [m EXCEPT !.exp = m.exp + s,
                   !.hi = m.hi \div 2^s,
                   !.lo = m.lo \div 2^s + (m.hi % 2^s) * 2^(28 - s),
                   !.rb = (m.lo \div 2^(s - 1)) % 2 = 1,
                   !.st = m.st \/ m.lo % 2^(s - 1) # 0]
    ELSE IF s = 28
    THEN [m EXCEPT !.exp = m.exp + s,
                   !.hi = m.hi \div B28,
                   !.lo = m.hi % B28,
                   !.rb = m.lo >= B28 \div 2,
                   !.st = m.st \/ m.lo % (B28 \div 2) # 0]
    ELSE IF s < 58
    THEN [m EXCEPT !.exp = m.exp + s,
                   !.hi = 0,
                   !.lo = m.hi \div 2^(s - 28),
                   !.rb = (m.hi \div 2^(s - 29)) % 2 = 1,
                   !.st = m.st \/ m.hi % 2^(s - 29) # 0 \/ m.lo # 0]
    ELSE [m EXCEPT !.exp = m.exp + s, !.hi = 0, !.lo = 0, !.rb = FALSE,
                   !.st = m.st \/ m.hi # 0 \/ m.lo # 0]

\* the double of sign neg and significand hi * 2^28 + lo at exponent exp, the
\* significand having gone through the last carry of a rounding (lo <= 2^28)
Carried(neg, exp, hi, lo) ==
    LET Packed(h, l) ==
            IF h = B28 \div 8
            THEN (IF exp + 1 > MaxExp THEN Inf(neg) ELSE Finite(neg, exp + 1, B28 \div 16, 0))
            ELSE IF exp > MaxExp THEN Inf(neg)
            ELSE IF h = 0 /\ l = 0 THEN Zero(neg)
            ELSE Finite(neg, exp, h, l)
    IN  Packed(IF lo = B28 THEN hi + 1 ELSE hi, lo % B28)

\* round to nearest, ties to even: the double nearest to the magnitude m * 2^exp,
\* m lying in [hi * 2^28 + lo, hi * 2^28 + lo + 1) and above its lower end iff
\* sticky; hi < 2^29, and with sticky the lower end has at least 54 bits. The
\* significand is brought to 53 bits, or to fewer where the result is subnormal
Round(neg, exp, hi, lo, sticky) ==
    LET Nearest(m) ==
            Carried(neg, m.exp, m.hi,
                    IF m.rb /\ (m.st \/ m.lo % 2 = 1) THEN m.lo + 1 ELSE m.lo)
        Shifted(m, s) == Nearest(IF s <= 0 THEN ShiftLeft(m, -s) ELSE ShiftRight(m, s))
        Measured(m, len) ==
            Shifted(m, IF len - 53 > MinExp - exp THEN len - 53 ELSE MinExp - exp)
    IN  IF hi = 0 /\ lo = 0 THEN Zero(neg)
        ELSE Measured(Bits(exp, hi, lo, sticky), BitLen2(hi, lo))

\* a finite non-zero x with its significand shifted to 53 bits
Normal(x) == ShiftLeft(x, 53 - BitLen2(x.hi, x.lo))

\* the number an integer literal or an integer-valued expression denotes
R(n) ==
    IF n = 0 THEN Zero(FALSE)
    ELSE Normal(Finite(n < 0, 0, (IF n < 0 THEN -n ELSE n) \div B28,
                       (IF n < 0 THEN -n ELSE n) % B28))

Neg(x) == IF IsNaN(x) THEN NaN ELSE [x EXCEPT !.neg = ~x.neg]

\* |x| < |y| for finite x and y
MagLess(x, y) ==
    IF x.exp # y.exp THEN (IF IsZero(x) THEN ~IsZero(y) ELSE IF IsZero(y) THEN FALSE ELSE x.exp < y.exp)
    ELSE IF x.hi # y.hi THEN x.hi < y.hi
    ELSE x.lo < y.lo

\* x + y for finite non-zero x and y with |x| >= |y|: both significands get three
\* more bits, that of y is shifted to the exponent of x, and the sum or the
\* difference of the two, halves h and l before the carry, is rounded
AddOrdered(x, y) ==
    LET Widened(z) ==
            Bits(z.exp - 3, z.hi * 8 + z.lo \div (B28 \div 8),
                 (z.lo % (B28 \div 8)) * 8, FALSE)
        Summed(e, h, l, sticky) ==
            IF h = 0 /\ l = 0 /\ ~sticky THEN Zero(FALSE)
            ELSE Round(x.neg, e, h + (l - (l % B28)) \div B28, l % B28, sticky)
        Aligned(a, b) ==
            Summed(a.exp,
                   IF x.neg = y.neg THEN a.hi + b.hi ELSE a.hi - b.hi,
                   IF x.neg = y.neg THEN a.lo + b.lo
                   ELSE a.lo - b.lo - (IF b.rb \/ b.st THEN 1 ELSE 0),
                   b.rb \/ b.st)
    IN  Aligned(Widened(x), ShiftRight(Widened(y), x.exp - y.exp))

Add(x, y) ==
    IF IsNaN(x) \/ IsNaN(y) THEN NaN
    ELSE IF IsInf(x) THEN (IF IsInf(y) /\ y.neg # x.neg THEN NaN ELSE x)
    ELSE IF IsInf(y) THEN y
    ELSE IF IsZero(x) THEN (IF IsZero(y) THEN Zero(x.neg /\ y.neg) ELSE y)
    ELSE IF IsZero(y) THEN x
    ELSE AddOrdered(IF MagLess(x, y) THEN y ELSE x, IF MagLess(x, y) THEN x ELSE y)

Sub(x, y) == Add(x, Neg(y))

\* the product of two 53-bit significands a and b, as floor(a * b / 2^50) in two
\* halves and whether a bit below was set; a and b are multiplied digit by digit
\* in base 2^14, column by column from the lowest: ck is the sum of column k
\* with the carry of the column below, pk the digit it leaves, st whether a
\* digit of the columns 0 to 2 is set
MulSignificands(ah, al, bh, bl) ==
    LET a3 == ah \div B14
        a2 == ah % B14
        a1 == al \div B14
        a0 == al % B14
        b3 == bh \div B14
        b2 == bh % B14
        b1 == bl \div B14
        b0 == bl % B14
        Column6(p3, p4, p5, c6, st) ==
            [hi |-> p5 \div 256 + (c6 % B14) * 64 + (c6 \div B14) * 1048576,
             lo |-> p3 \div 256 + p4 * 64 + (p5 % 256) * 1048576,
             st |-> st \/ p3 % 256 # 0]
        Column5(p3, p4, c5, st) == Column6(p3, p4, c5 % B14, a3 * b3 + c5 \div B14, st)
        Column4(p3, c4, st) ==
            Column5(p3, c4 % B14, a2 * b3 + a3 * b2 + c4 \div B14, st)
        Column3(c3, st) ==
            Column4(c3 % B14, a1 * b3 + a2 * b2 + a3 * b1 + c3 \div B14, st)
        Column2(c2, st) ==
            Column3(a0 * b3 + a1 * b2 + a2 * b1 + a3 * b0 + c2 \div B14,
                    st \/ c2 % B14 # 0)
        Column1(c1, st) ==
            Column2(a0 * b2 + a1 * b1 + a2 * b0 + c1 \div B14, st \/ c1 % B14 # 0)
        Column0(c0) == Column1(a0 * b1 + a1 * b0 + c0 \div B14, c0 % B14 # 0)
    IN  Column0(a0 * b0)

Mul(x, y) ==
    LET Rounded(e, p) == Round(x.neg # y.neg, e, p.hi, p.lo, p.st)
        Multiplied(a, b) ==
            Rounded(a.exp + b.exp + 50, MulSignificands(a.hi, a.lo, b.hi, b.lo))
    IN  IF IsNaN(x) \/ IsNaN(y) THEN NaN
        ELSE IF IsInf(x) \/ IsInf(y)
        THEN (IF IsZero(x) \/ IsZero(y) THEN NaN ELSE Inf(x.neg # y.neg))
        ELSE IF IsZero(x) \/ IsZero(y) THEN Zero(x.neg # y.neg)
        ELSE Multiplied(Normal(x), Normal(y))

\* the four base-2^14 digits of the 53-bit significand hi * 2^28 + lo shifted
\* left by three bits, so that the leading digit is at least 2^13
Digits(hi, lo) ==
    [d3 |-> (hi * 8 + lo \div (B28 \div 8)) \div B14,
     d2 |-> (hi * 8 + lo \div (B28 \div 8)) % B14,
     d1 |-> ((lo % (B28 \div 8)) * 8) \div B14,
     d0 |-> ((lo % (B28 \div 8)) * 8) % B14]

\* one step of the long division in base 2^14 by the divisor of digits v: the
\* running remainder r (digits r4 .. r0, below 2^14 times the divisor) yields
\* the next digit q of the quotient and the four digits of what is left. The
\* digit is estimated from the two leading digits of r and the leading digit
\* of v, lowered (at most twice) while the next digit shows it too large; q
\* times the divisor is then subtracted from r digit by digit, tk being the
\* difference at digit k with the borrow from below and xk the digit it leaves;
\* when the subtraction turns out negative the digit is lowered once more and
\* the divisor added back, ak being the sum at digit k with the carry from below
DivDigit(r, v) ==
    LET Added3(q, y0, y1, a2, x3) ==
            [q |-> q, d3 |-> (x3 + v.d3 + a2 \div B14) % B14, d2 |-> a2 % B14,
             d1 |-> y1, d0 |-> y0]
        Added2(q, y0, a1, x2, x3) ==
            Added3(q, y0, a1 % B14, x2 + v.d2 + a1 \div B14, x3)
        Added1(q, a0, x1, x2, x3) ==
            Added2(q, a0 % B14, x1 + v.d1 + a0 \div B14, x2, x3)
        Left(q, x0, x1, x2, x3, t4) ==
            IF t4 < 0 THEN Added1(q - 1, x0 + v.d0, x1, x2, x3)
            ELSE [q |-> q, d3 |-> x3, d2 |-> x2, d1 |-> x1, d0 |-> x0]
        Taken3(q, x0, x1, x2, t3) ==
            Left(q, x0, x1, x2, t3 % B14, r.r4 + (t3 - (t3 % B14)) \div B14)
        Taken2(q, x0, x1, t2) ==
            Taken3(q, x0, x1, t2 % B14, r.r3 - q * v.d3 + (t2 - (t2 % B14)) \div B14)
        Taken1(q, x0, t1) ==
            Taken2(q, x0, t1 % B14, r.r2 - q * v.d2 + (t1 - (t1 % B14)) \div B14)
        Taken0(q, t0) ==
            Taken1(q, t0 % B14, r.r1 - q * v.d1 + (t0 - (t0 % B14)) \div B14)
        Settled(q) == Taken0(q, r.r0 - q * v.d0)
        Lowered(q1, h1, low1) ==
            Settled(IF low1 /\ h1 < B14 /\ q1 * v.d2 > h1 * B14 + r.r2
                    THEN q1 - 1 ELSE q1)
        Checked(q0, h0, low1) ==
            Lowered(IF low1 THEN q0 - 1 ELSE q0, IF low1 THEN h0 + v.d3 ELSE h0, low1)
        Estimated(q0, h0) == Checked(q0, h0, h0 < B14 /\ q0 * v.d2 > h0 * B14 + r.r2)
        Capped(num, q0) == Estimated(q0, num - q0 * v.d3)
        Leading(num) == Capped(num, IF num \div v.d3 >= B14 THEN B14 - 1 ELSE num \div v.d3)
    IN  Leading(r.r4 * B14 + r.r3)

\* the remainder s left by a step, with the digit down brought down
BroughtDown(s, down) == [r4 |-> s.d3, r3 |-> s.d2, r2 |-> s.d1, r1 |-> s.d0, r0 |-> down]

\* the long division by the divisor of digits v carried on for n more digits: s
\* is what the steps so far have left, down the digit to bring down next, and
\* quotient the digits found so far, the first of them leading. After the last
\* of the five digits, the quotient in two halves and whether a remainder is left
RECURSIVE DivDigits(_, _, _, _, _)
DivDigits(s, down, v, quotient, n) ==
    LET Found(step) == DivDigits(step, 0, v, Append(quotient, step.q), n - 1)
    IN  IF n = 0
        THEN [hi |-> quotient[1] * B28 + quotient[2] * B14 + quotient[3],
              lo |-> quotient[4] * B14 + quotient[5],
              st |-> s.d3 # 0 \/ s.d2 # 0 \/ s.d1 # 0 \/ s.d0 # 0]
        ELSE Found(DivDigit(BroughtDown(s, down), v))

\* floor(a * 2^56 / b) for the 53-bit significands a = ah * 2^28 + al and
\* b = bh * 2^28 + bl, in two halves, and whether the division left a remainder:
\* five digits of a long division in base 2^14, the digits of a being the
\* first remainder
DivSignificands(ah, al, bh, bl) ==
    LET Begun(u, v) ==
            DivDigits([d3 |-> 0, d2 |-> u.d3, d1 |-> u.d2, d0 |-> u.d1], u.d0, v, << >>, 5)
    IN  Begun(Digits(ah, al), Digits(bh, bl))

Div(x, y) ==
    LET Rounded(e, q) == Round(x.neg # y.neg, e, q.hi, q.lo, q.st)
        Divided(a, b) ==
            Rounded(a.exp - b.exp - 56, DivSignificands(a.hi, a.lo, b.hi, b.lo))
    IN  IF IsNaN(x) \/ IsNaN(y) THEN NaN
        ELSE IF IsInf(x) THEN (IF IsInf(y) THEN NaN ELSE Inf(x.neg # y.neg))
        ELSE IF IsInf(y) THEN Zero(x.neg # y.neg)
        ELSE IF IsZero(y) THEN (IF IsZero(x) THEN NaN ELSE Inf(x.neg # y.neg))
        ELSE IF IsZero(x) THEN Zero(x.neg # y.neg)
        ELSE Divided(Normal(x), Normal(y))

\* the number a decimal literal n / d denotes, n and d integers
Rat(n, d) == Div(R(n), R(d))

\* x < y; false when either side is NaN
Lt(x, y) ==
    IF IsNaN(x) \/ IsNaN(y) THEN FALSE
    ELSE IF IsInf(x) THEN x.neg /\ y # x
    ELSE IF IsInf(y) THEN ~y.neg
    ELSE IF IsZero(x) THEN ~IsZero(y) /\ ~y.neg
    ELSE IF IsZero(y) THEN x.neg
    ELSE IF x.neg # y.neg THEN x.neg
    ELSE IF x.neg THEN MagLess(y, x) ELSE MagLess(x, y)

Gt(x, y) == Lt(y, x)

\* x === y on numbers: NaN differs from everything, itself included, and 0 equals -0
Eq(x, y) == ~IsNaN(x) /\ ~IsNaN(y) /\ (x = y \/ (IsZero(x) /\ IsZero(y)))

Le(x, y) == Lt(x, y) \/ Eq(x, y)

Ge(x, y) == Le(y, x)

\* Math.max(a, b)
MathMax(x, y) ==
    IF IsNaN(x) \/ IsNaN(y) THEN NaN
    ELSE IF IsZero(x) /\ IsZero(y) THEN Zero(x.neg /\ y.neg)
    ELSE IF Lt(x, y) THEN y ELSE x

\* truthiness of a number: 0, -0 and NaN are falsy
Truthy(x) == ~IsNaN(x) /\ ~IsZero(x)

\* element at a 0-based index, as the source indexes arrays
At(s, j) == s[j + 1]

\* Array.prototype.slice(from, to) for 0 <= from
Slice(s, from, to) ==
    LET hi == IF to > Len(s) THEN Len(s) ELSE to
    IN  IF from >= hi THEN << >> ELSE [j \in 1..(hi - from) |-> s[from + j]]

\* the running sums acc + s[lo], acc + s[lo] + s[lo + 1], ... up to s[hi - 1]
\* (0-based), added left to right; loops of the source are unrolled by halving
\* their index range, which keeps the order of the iterations and bounds the
\* nesting of the evaluation
RECURSIVE RunningSums(_, _, _, _)
RunningSums(s, acc, lo, hi) ==
    IF lo >= hi THEN << >>
    ELSE IF hi = lo + 1 THEN <<Add(acc, At(s, lo))>>
    ELSE LET left == RunningSums(s, acc, lo, (lo + hi) \div 2)
         IN  left \o RunningSums(s, left[Len(left)], (lo + hi) \div 2, hi)

\* s.reduce((a, b) => a + b, 0)
SumNums(s) ==
    IF s = << >> THEN R(0) ELSE LET sums == RunningSums(s, R(0), 0, Len(s)) IN sums[Len(sums)]

-----------------------------------------------------------------------------
(* IndicatorEngine *)

\* calculateEMA's data.map callback applied to candles lo .. hi - 1 in order,
\* ema being the accumulator left by candle lo - 1
RECURSIVE emaMap(_, _, _, _, _)
emaMap(d, k, ema, lo, hi) ==
    IF lo >= hi THEN << >>
    ELSE IF hi = lo + 1
    THEN <<[time |-> At(d, lo).time,
            value |-> Add(Mul(At(d, lo).close, k), Mul(ema, Sub(R(1), k)))]>>
    ELSE LET left == emaMap(d, k, ema, lo, (lo + hi) \div 2)
         IN  left \o emaMap(d, k, left[Len(left)].value, (lo + hi) \div 2, hi)

\* calculateEMA with the accumulator starting at 0 instead of data[0].close
calculateEMA_seedZero(d, p) ==
    IF Len(d) < p THEN << >>
    ELSE emaMap(d, Rat(2, p + 1), R(0), 0, Len(d))

calculateEMA(d, p) ==
    IF Len(d) < p THEN << >>
    ELSE emaMap(d, Rat(2, p + 1), At(d, 0).close, 0, Len(d))

\* 100 - 100 / (1 + avgGain / avgLoss), the value pushed for each RSI point
rsiValue(avgGain, avgLoss) ==
    Sub(R(100), Div(R(100), Add(R(1), Div(avgGain, avgLoss))))

\* gains[] and losses[] of calculateRSI: one entry per consecutive pair of closes
rsiGains(d) ==
    [j \in 1..(Len(d) - 1) |-> MathMax(R(0), Sub(At(d, j).close, At(d, j - 1).close))]

rsiLosses(d) ==
    [j \in 1..(Len(d) - 1) |-> MathMax(R(0), Neg(Sub(At(d, j).close, At(d, j - 1).close)))]

\* the Wilder-smoothing loop of calculateRSI for i = lo .. hi - 1: the pair
\* (avgGain, avgLoss) after each iteration, avg being the pair before iteration lo
RECURSIVE rsiLoop(_, _, _, _, _, _)
rsiLoop(p, gains, losses, avg, lo, hi) ==
    IF lo >= hi THEN << >>
    ELSE IF hi = lo + 1
    THEN <<[avgGain |-> Div(Add(Mul(avg.avgGain, R(p - 1)), At(gains, lo)), R(p)),
            avgLoss |-> Div(Add(Mul(avg.avgLoss, R(p - 1)), At(losses, lo)), R(p))]>>
    ELSE LET left == rsiLoop(p, gains, losses, avg, lo, (lo + hi) \div 2)
         IN  left \o rsiLoop(p, gains, losses, left[Len(left)], (lo + hi) \div 2, hi)

\* the initial avgGain and avgLoss of calculateRSI
rsiSeed(p, gains, losses) ==
    [avgGain |-> Div(SumNums(Slice(gains, 0, p)), R(p)),
     avgLoss |-> Div(SumNums(Slice(losses, 0, p)), R(p))]

rsiSmoothed(d, p, gains, losses, seed) ==
    <<seed>> \o rsiLoop(p, gains, losses, seed, p, Len(d) - 1)

\* the averages behind each point of calculateRSI's output: the seed (simple
\* means of the first p gains and losses), then one pair per loop iteration
rsiAverages(d, p) ==
    rsiSmoothed(d, p, rsiGains(d), rsiLosses(d), rsiSeed(p, rsiGains(d), rsiLosses(d)))

\* rsiValues with each point carrying the time of the candle before its own
rsiPoints_earlierTime(d, p, avgs) ==
    [j \in 1..Len(avgs) |->
        [time |-> d[p + j - 1].time, value |-> rsiValue(avgs[j].avgGain, avgs[j].avgLoss)]]

\* rsiValues of calculateRSI: point j carries the time of candle p + j
rsiPoints(d, p, avgs) ==
    [j \in 1..Len(avgs) |->
        [time |-> d[p + j].time, value |-> rsiValue(avgs[j].avgGain, avgs[j].avgLoss)]]

calculateRSI(d, p) ==
    IF Len(d) < p + 1 THEN << >> ELSE rsiPoints(d, p, rsiAverages(d, p))

\* macdLine of calculateMACD: fast EMA minus slow EMA, point by point
macdLine(fastEMA, slowEMA) ==
    [j \in 1..Len(fastEMA) |->
        [time |-> fastEMA[j].time, value |-> Sub(fastEMA[j].value, slowEMA[j].value)]]

\* calculateMACD's macdLine.map callback applied to points lo .. hi - 1 in order,
\* signal being the accumulator left by point lo - 1
RECURSIVE macdMap(_, _, _, _, _)
macdMap(line, k, signal, lo, hi) ==
    IF lo >= hi THEN << >>
    ELSE IF hi = lo + 1
    THEN LET s == Add(Mul(At(line, lo).value, k), Mul(signal, Sub(R(1), k)))
         IN  <<[time |-> At(line, lo).time, macd |-> At(line, lo).value, signal |-> s,
                histogram |-> Sub(At(line, lo).value, s)]>>
    ELSE LET left == macdMap(line, k, signal, lo, (lo + hi) \div 2)
         IN  left \o macdMap(line, k, left[Len(left)].signal, (lo + hi) \div 2, hi)

\* the signal line smoothed with 2 / period instead of 2 / (period + 1)
macdPoints_wrongK(line) == macdMap(line, Rat(2, 9), At(line, 0).value, 0, Len(line))

\* the signal line and histogram over the macd line, seeded with macdLine[0]
macdPoints(line) == macdMap(line, Rat(2, 9 + 1), At(line, 0).value, 0, Len(line))

calculateMACD(d) ==
    IF Len(d) < 26 THEN << >>
    ELSE macdPoints(macdLine(calculateEMA(d, 12), calculateEMA(d, 26)))

\* calculateSMA averaging the candles there are when the series is shorter than
\* the period
calculateSMA_partial(d, p) ==
    IF Len(d) = 0 THEN << >>
    ELSE IF Len(d) < p
    THEN <<[time |-> d[Len(d)].time,
            value |-> Div(SumNums([m \in 1..Len(d) |-> d[m].close]), R(Len(d)))]>>
    ELSE [j \in 1..(Len(d) - p + 1) |->
            [time |-> d[j + p - 1].time,
             value |-> Div(SumNums([m \in 1..p |-> d[j + m - 1].close]), R(p))]]

calculateSMA(d, p) ==
    IF Len(d) < p THEN << >>
    ELSE [j \in 1..(Len(d) - p + 1) |->
            [time |-> d[j + p - 1].time,
             value |-> Div(SumNums([m \in 1..p |-> d[j + m - 1].close]), R(p))]]

-----------------------------------------------------------------------------
(* SignalGenerator *)

Max2(a, b) == IF a > b THEN a ELSE b

Min2(a, b) == IF a < b THEN a ELSE b

\* ss[lo] \o ... \o ss[hi - 1] (0-based) for a sequence of sequences
RECURSIVE Flatten(_, _, _)
Flatten(ss, lo, hi) ==
    IF lo >= hi THEN << >>
    ELSE IF hi = lo + 1 THEN At(ss, lo)
    ELSE Flatten(ss, lo, (lo + hi) \div 2) \o Flatten(ss, (lo + hi) \div 2, hi)

\* the pushes of a for loop over j = from .. to - 1: pushed[j - from + 1] is
\* what iteration j pushes
Pushes(pushed, from, to) == Flatten(pushed, 0, to - from)

\* Array.prototype.filter: kept[j] tells whether element j - 1 passes
Filter(s, kept) ==
    Flatten([j \in 1..Len(s) |-> IF kept[j] THEN <<s[j]>> ELSE << >>], 0, Len(s))

\* isVolumeSurge comparing the volume with the mean alone
isVolumeSurge_noThreshold(candle, avgVolume, threshold) ==
    Gt(candle.volume, avgVolume)

isVolumeSurge(candle, avgVolume, threshold) ==
    Gt(candle.volume, Mul(avgVolume, threshold))

\* timeframes[timeframe]: undefined (modelled as -1) for a key the table lacks
timeLimitOf(timeframe) ==
    CASE timeframe = "1m" -> 30 * 24 * 60 * 60
      [] timeframe = "3m" -> 90 * 24 * 60 * 60
      [] timeframe = "6m" -> 180 * 24 * 60 * 60
      [] OTHER -> -1

\* nowSec stands for Date.now() / 1000; a comparison with undefined is false
filterDataByTimeframe(d, timeframe, nowSec) ==
    IF timeframe = "all" THEN d
    ELSE LET timeLimit == timeLimitOf(timeframe)
             keep(candle, j) == timeLimit # -1 /\ nowSec - candle.time < timeLimit
         IN  Filter(d, [j \in 1..Len(d) |-> keep(d[j], j - 1)])

Signal(candle, type, reason) ==
    [time |-> candle.time, type |-> type, price |-> candle.close, reason |-> reason]

\* the template string `EMA ${fastPeriod} crossed ... EMA ${slowPeriod} ...`
emaReason(fastPeriod, side, slowPeriod) ==
    "EMA " \o ToString(fastPeriod) \o " crossed " \o side \o " EMA "
        \o ToString(slowPeriod) \o " with trend confirmation"

\* iteration j of generateEMASignals' loop pushing on a cross whatever the trend
emaSignalAt_noTrend(d, fastEma, slowEma, trendEma, fastPeriod, slowPeriod, j) ==
    IF j >= Len(fastEma) \/ j >= Len(slowEma) \/ j >= Len(trendEma) THEN << >>
    ELSE LET trend == Gt(At(d, j).close, At(trendEma, j).value)
             prevFast == At(fastEma, j - 1).value
             prevSlow == At(slowEma, j - 1).value
             currFast == At(fastEma, j).value
             currSlow == At(slowEma, j).value
             priceConfirmation ==
                 IF trend THEN Gt(At(d, j).close, At(d, j).open)
                 ELSE Lt(At(d, j).close, At(d, j).open)
         IN  IF Le(prevFast, prevSlow) /\ Gt(currFast, currSlow) /\ priceConfirmation
             THEN <<Signal(At(d, j), "buy", emaReason(fastPeriod, "above", slowPeriod))>>
             ELSE IF Ge(prevFast, prevSlow) /\ Lt(currFast, currSlow) /\ priceConfirmation
             THEN <<Signal(At(d, j), "sell", emaReason(fastPeriod, "below", slowPeriod))>>
             ELSE << >>

\* iteration j of generateEMASignals' loop: what it pushes
emaSignalAt(d, fastEma, slowEma, trendEma, fastPeriod, slowPeriod, j) ==
    IF j >= Len(fastEma) \/ j >= Len(slowEma) \/ j >= Len(trendEma) THEN << >>
    ELSE LET trend == Gt(At(d, j).close, At(trendEma, j).value)
             prevFast == At(fastEma, j - 1).value
             prevSlow == At(slowEma, j - 1).value
             currFast == At(fastEma, j).value
             currSlow == At(slowEma, j).value
             priceConfirmation ==
                 IF trend THEN Gt(At(d, j).close, At(d, j).open)
                 ELSE Lt(At(d, j).close, At(d, j).open)
         IN  IF Le(prevFast, prevSlow) /\ Gt(currFast, currSlow)
                /\ trend /\ priceConfirmation
             THEN <<Signal(At(d, j), "buy", emaReason(fastPeriod, "above", slowPeriod))>>
             ELSE IF Ge(prevFast, prevSlow) /\ Lt(currFast, currSlow)
                     /\ ~trend /\ priceConfirmation
             THEN <<Signal(At(d, j), "sell", emaReason(fastPeriod, "below", slowPeriod))>>
             ELSE << >>

\* generateEMASignals' loop over the three EMA series
emaCrossSignals(d, fastEma, slowEma, trendEma, fastPeriod, slowPeriod) ==
    Pushes([j \in 1..(Len(d) - 1) |->
               emaSignalAt(d, fastEma, slowEma, trendEma, fastPeriod, slowPeriod, j)],
           1, Len(d))

generateEMASignals(d, fastPeriod, slowPeriod) ==
    IF Len(d) < Max2(Max2(fastPeriod, slowPeriod), 99) THEN << >>
    ELSE emaCrossSignals(d, calculateEMA(d, fastPeriod), calculateEMA(d, slowPeriod),
                         calculateEMA(d, 99), fastPeriod, slowPeriod)

\* iteration j of generateRSISignals' loop: what it pushes (sma20[j] is defined
\* for every j the loop visits, and the trend it yields is never read)
rsiSignalAt(d, rsiValues, j) ==
    LET rsi == At(rsiValues, j).value
        prevRsi == At(rsiValues, j - 1).value
    IN  IF ~Truthy(rsi) \/ ~Truthy(prevRsi) THEN << >>
        ELSE (IF Lt(rsi, R(30)) /\ Lt(prevRsi, R(30))
                 /\ Lt(At(d, j).low, At(d, j - 1).low) /\ Gt(rsi, prevRsi)
              THEN <<Signal(At(d, j), "buy", "RSI bullish divergence")>>
              ELSE << >>)
             \o
             (IF Gt(rsi, R(70)) /\ Gt(prevRsi, R(70))
                 /\ Gt(At(d, j).high, At(d, j - 1).high) /\ Lt(rsi, prevRsi)
              THEN <<Signal(At(d, j), "sell", "RSI bearish divergence")>>
              ELSE << >>)

\* generateRSISignals' loop over the RSI series and the 20-period SMA series it
\* has computed: i from startIndex while
\* i < Math.min(rsiValues.length, data.length, sma20.length)
rsiDivergenceSignals(d, rsiValues, sma20, startIndex) ==
    LET endIndex == Min2(Min2(Len(rsiValues), Len(d)), Len(sma20))
    IN  Pushes([j \in 1..(endIndex - startIndex) |->
                   rsiSignalAt(d, rsiValues, startIndex + j - 1)],
               startIndex, endIndex)

generateRSISignals(d, p) ==
    IF Len(d) < p + 20 THEN << >>
    ELSE rsiDivergenceSignals(d, calculateRSI(d, p), calculateSMA(d, 20), Max2(2, p))

\* iteration j of generateMACDSignals' loop pushing the candle before the cross
macdSignalAt_previousCandle(d, macdData, j) ==
    LET prevMACD == At(macdData, j - 1)
        currMACD == At(macdData, j)
    IN  (IF Le(prevMACD.macd, prevMACD.signal) /\ Gt(currMACD.macd, currMACD.signal)
            /\ Gt(currMACD.histogram, R(0))
         THEN <<Signal(At(d, j - 1), "buy",
                       "MACD crossed above signal line with positive momentum")>>
         ELSE << >>)
        \o
        (IF Ge(prevMACD.macd, prevMACD.signal) /\ Lt(currMACD.macd, currMACD.signal)
            /\ Lt(currMACD.histogram, R(0))
         THEN <<Signal(At(d, j - 1), "sell",
                       "MACD crossed below signal line with negative momentum")>>
         ELSE << >>)

\* iteration j of generateMACDSignals' loop: what it pushes
macdSignalAt(d, macdData, j) ==
    LET prevMACD == At(macdData, j - 1)
        currMACD == At(macdData, j)
    IN  (IF Le(prevMACD.macd, prevMACD.signal) /\ Gt(currMACD.macd, currMACD.signal)
            /\ Gt(currMACD.histogram, R(0))
         THEN <<Signal(At(d, j), "buy",
                       "MACD crossed above signal line with positive momentum")>>
         ELSE << >>)
        \o
        (IF Ge(prevMACD.macd, prevMACD.signal) /\ Lt(currMACD.macd, currMACD.signal)
            /\ Lt(currMACD.histogram, R(0))
         THEN <<Signal(At(d, j), "sell",
                       "MACD crossed below signal line with negative momentum")>>
         ELSE << >>)

\* generateMACDSignals' loop over the MACD series
macdCrossSignals(d, macdData) ==
    Pushes([j \in 1..(Len(macdData) - 1) |-> macdSignalAt(d, macdData, j)], 1, Len(macdData))

generateMACDSignals(d) ==
    IF Len(d) < 26 THEN << >> ELSE macdCrossSignals(d, calculateMACD(d))

\* Array.prototype.sort((a, b) => a.time - b.time): stable, ascending by time
RECURSIVE sortByTime(_)
sortByTime(s) ==
    IF s = << >> THEN << >>
    ELSE LET rest == sortByTime(Slice(s, 0, Len(s) - 1))
             x == s[Len(s)]
             n == Cardinality({j \in 1..Len(rest) : rest[j].time <= x.time})
         IN  Slice(rest, 0, n) \o <<x>> \o Slice(rest, n, Len(rest))

\* the alternation filter keeping element 0 whatever its type
alternationFilter_firstAny(s) ==
    LET keep(signal, index) ==
            IF index = 0 THEN TRUE
            ELSE signal.type # At(s, index - 1).type
    IN  Filter(s, [j \in 1..Len(s) |-> keep(s[j], j - 1)])

\* the filter shared by generateSignals and calculateTradingStats: element 0 is
\* kept iff it is a buy, element index > 0 iff its type differs from that of
\* element index - 1 of the list being filtered
alternationFilter(s) ==
    LET keep(signal, index) ==
            IF index = 0 THEN signal.type = "buy"
            ELSE signal.type # At(s, index - 1).type
    IN  Filter(s, [j \in 1..Len(s) |-> keep(s[j], j - 1)])

\* the detectors' signals with those of the MACD-cross detector pushed first
detectorSignals_macdFirst(fd, st) ==
    (IF st.type \in {"macd_cross", "multi"}
     THEN generateMACDSignals(fd) ELSE << >>)
    \o
    (IF st.type \in {"ema_cross", "multi"} /\ st.fastEma # 0 /\ st.slowEma # 0
     THEN generateEMASignals(fd, st.fastEma, st.slowEma) ELSE << >>)
    \o
    (IF st.type \in {"rsi_oversold", "multi"} /\ st.rsiPeriod # 0
     THEN generateRSISignals(fd, st.rsiPeriod) ELSE << >>)

\* the signals the detectors selected by strategy.type push, in source order
detectorSignals(fd, st) ==
    (IF st.type \in {"ema_cross", "multi"} /\ st.fastEma # 0 /\ st.slowEma # 0
     THEN generateEMASignals(fd, st.fastEma, st.slowEma) ELSE << >>)
    \o
    (IF st.type \in {"rsi_oversold", "multi"} /\ st.rsiPeriod # 0
     THEN generateRSISignals(fd, st.rsiPeriod) ELSE << >>)
    \o
    (IF st.type \in {"macd_cross", "multi"}
     THEN generateMACDSignals(fd) ELSE << >>)

\* the early return of generateSignals when strategy.useVolume is set
volumeFilter(fd, sigs, st) ==
    LET avgVolume == Div(SumNums([j \in 1..Len(fd) |-> fd[j].volume]), R(Len(fd)))
        threshold == IF Truthy(st.volumeThreshold) THEN st.volumeThreshold ELSE Rat(3, 2)
        keep(signal, index) ==
            \E j \in 1..Len(fd) :
                /\ fd[j].time = signal.time
                /\ \A m \in 1..(j - 1) : fd[m].time # signal.time
                /\ isVolumeSurge(fd[j], avgVolume, threshold)
    IN  Filter(sigs, [j \in 1..Len(sigs) |-> keep(sigs[j], j - 1)])

\* generateSignals once the detectors have run: the volume filter's early return,
\* else the sort by time and the alternation filter
returnedSignals(fd, sigs, st) ==
    IF st.useVolume /\ Len(sigs) > 0
    THEN volumeFilter(fd, sigs, st)
    ELSE alternationFilter(sortByTime(sigs))

\* generateSignals on the series left by the timeframe filter
signalsOfFiltered(fd, st) ==
    IF Len(fd) < 2 THEN << >> ELSE returnedSignals(fd, detectorSignals(fd, st), st)

\* st: StrategyParams, an absent optional number being 0 and an absent
\* timeframe "undefined"; nowSec: the clock filterDataByTimeframe reads
generateSignals(d, st, nowSec) ==
    IF Len(d) < 2 THEN << >>
    ELSE signalsOfFiltered(filterDataByTimeframe(d, st.timeframe, nowSec), st)

-----------------------------------------------------------------------------
(* Backtester *)

\* the locals of calculateTradingStats before its loop
statsLocals(capital) ==
    [currentCapital |-> capital, peakCapital |-> capital, maxDrawdown |-> R(0),
     winningTrades |-> 0, trades |-> << >>]

\* the record pushed on trades[]
TradeResult(buySignal, sellSignal, quantity, profit, profitPercentage, capital) ==
    [entryPrice |-> buySignal.price,
     exitPrice |-> sellSignal.price,
     profit |-> profit,
     profitPercentage |-> profitPercentage,
     capitalAfterTrade |-> capital,
     quantity |-> quantity,
     entryTime |-> buySignal.time,
     exitTime |-> sellSignal.time,
     entryReason |-> buySignal.reason,
     exitReason |-> sellSignal.reason]

\* one iteration sizing the position from peakCapital instead of currentCapital
tradeStep_peakSized(loc, buySignal, sellSignal) ==
    IF buySignal.type # "buy" \/ sellSignal.type # "sell" THEN loc
    ELSE LET quantity == Div(loc.peakCapital, buySignal.price)
             tradeProfitAmount == Mul(quantity, Sub(sellSignal.price, buySignal.price))
             tradeProfitPercentage ==
                 Mul(Div(Sub(sellSignal.price, buySignal.price), buySignal.price), R(100))
             capital == Add(loc.currentCapital, tradeProfitAmount)
             grew == Gt(capital, loc.peakCapital)
             currentDrawdown ==
                 Mul(Div(Sub(loc.peakCapital, capital), loc.peakCapital), R(100))
         IN  [currentCapital |-> capital,
              peakCapital |-> IF grew THEN capital ELSE loc.peakCapital,
              maxDrawdown |-> IF grew THEN loc.maxDrawdown
                              ELSE MathMax(loc.maxDrawdown, currentDrawdown),
              winningTrades |-> IF Gt(tradeProfitAmount, R(0))
                                THEN loc.winningTrades + 1 ELSE loc.winningTrades,
              trades |-> Append(loc.trades,
                  TradeResult(buySignal, sellSignal, quantity, tradeProfitAmount,
                              tradeProfitPercentage, capital))]

\* one iteration that never raises peakCapital
tradeStep_stalePeak(loc, buySignal, sellSignal) ==
    IF buySignal.type # "buy" \/ sellSignal.type # "sell" THEN loc
    ELSE LET quantity == Div(loc.currentCapital, buySignal.price)
             tradeProfitAmount == Mul(quantity, Sub(sellSignal.price, buySignal.price))
             tradeProfitPercentage ==
                 Mul(Div(Sub(sellSignal.price, buySignal.price), buySignal.price), R(100))
             capital == Add(loc.currentCapital, tradeProfitAmount)
             grew == Gt(capital, loc.peakCapital)
             currentDrawdown ==
                 Mul(Div(Sub(loc.peakCapital, capital), loc.peakCapital), R(100))
         IN  [currentCapital |-> capital,
              peakCapital |-> loc.peakCapital,
              maxDrawdown |-> IF grew THEN loc.maxDrawdown
                              ELSE MathMax(loc.maxDrawdown, currentDrawdown),
              winningTrades |-> IF Gt(tradeProfitAmount, R(0))
                                THEN loc.winningTrades + 1 ELSE loc.winningTrades,
              trades |-> Append(loc.trades,
                  TradeResult(buySignal, sellSignal, quantity, tradeProfitAmount,
                              tradeProfitPercentage, capital))]

\* one iteration of the pairing loop on validSignals[j], validSignals[j + 1]
tradeStep(loc, buySignal, sellSignal) ==
    IF buySignal.type # "buy" \/ sellSignal.type # "sell" THEN loc
    ELSE LET quantity == Div(loc.currentCapital, buySignal.price)
             tradeProfitAmount == Mul(quantity, Sub(sellSignal.price, buySignal.price))
             tradeProfitPercentage ==
                 Mul(Div(Sub(sellSignal.price, buySignal.price), buySignal.price), R(100))
             capital == Add(loc.currentCapital, tradeProfitAmount)
             grew == Gt(capital, loc.peakCapital)
             currentDrawdown ==
                 Mul(Div(Sub(loc.peakCapital, capital), loc.peakCapital), R(100))
         IN  [currentCapital |-> capital,
              peakCapital |-> IF grew THEN capital ELSE loc.peakCapital,
              maxDrawdown |-> IF grew THEN loc.maxDrawdown
                              ELSE MathMax(loc.maxDrawdown, currentDrawdown),
              winningTrades |-> IF Gt(tradeProfitAmount, R(0))
                                THEN loc.winningTrades + 1 ELSE loc.winningTrades,
              trades |-> Append(loc.trades,
                  TradeResult(buySignal, sellSignal, quantity, tradeProfitAmount,
                              tradeProfitPercentage, capital))]

\* signals[0]?.price || 0 and signals[signals.length - 1]?.price || 0
priceOrZero(sigs, j) ==
    IF j < 0 \/ j >= Len(sigs) THEN R(0)
    ELSE IF Truthy(At(sigs, j).price) THEN At(sigs, j).price ELSE R(0)

\* the returned record with the buy-and-hold baseline taken from the first entry
\* and the last exit of the trades instead of the first and last signal
statsResult_tradedPrices(sigs, capital, loc) ==
    LET firstPrice ==
            IF loc.trades = << >> THEN R(0) ELSE loc.trades[1].entryPrice
        lastPrice ==
            IF loc.trades = << >> THEN R(0) ELSE loc.trades[Len(loc.trades)].exitPrice
        holdProfitPercentage == Mul(Div(Sub(lastPrice, firstPrice), firstPrice), R(100))
    IN  [totalProfit |-> Sub(loc.currentCapital, capital),
         profitPercentage |-> Mul(Div(Sub(loc.currentCapital, capital), capital), R(100)),
         winRate |-> IF Len(loc.trades) > 0
                     THEN Mul(Div(R(loc.winningTrades), R(Len(loc.trades))), R(100))
                     ELSE R(0),
         totalTrades |-> Len(loc.trades),
         winningTrades |-> loc.winningTrades,
         maxDrawdown |-> loc.maxDrawdown,
         finalCapital |-> loc.currentCapital,
         trades |-> loc.trades,
         holdProfitPercentage |-> holdProfitPercentage,
         holdFinalCapital |->
             Mul(capital, Add(R(1), Div(holdProfitPercentage, R(100))))]

\* the record calculateTradingStats returns once its loop has ended
statsResult(sigs, capital, loc) ==
    LET firstPrice == priceOrZero(sigs, 0)
        lastPrice == priceOrZero(sigs, Len(sigs) - 1)
        holdProfitPercentage == Mul(Div(Sub(lastPrice, firstPrice), firstPrice), R(100))
    IN  [totalProfit |-> Sub(loc.currentCapital, capital),
         profitPercentage |-> Mul(Div(Sub(loc.currentCapital, capital), capital), R(100)),
         winRate |-> IF Len(loc.trades) > 0
                     THEN Mul(Div(R(loc.winningTrades), R(Len(loc.trades))), R(100))
                     ELSE R(0),
         totalTrades |-> Len(loc.trades),
         winningTrades |-> loc.winningTrades,
         maxDrawdown |-> loc.maxDrawdown,
         finalCapital |-> loc.currentCapital,
         trades |-> loc.trades,
         holdProfitPercentage |-> holdProfitPercentage,
         holdFinalCapital |->
             Mul(capital, Add(R(1), Div(holdProfitPercentage, R(100))))]

\* for (let i = j; i < validSignals.length - 1; i += 2)
RECURSIVE statsLoop(_, _, _)
statsLoop(valid, loc, j) ==
    IF j >= Len(valid) - 1 THEN loc
    ELSE statsLoop(valid, tradeStep(loc, At(valid, j), At(valid, j + 1)), j + 2)

calculateTradingStats(sigs, capital) ==
    statsResult(sigs, capital, statsLoop(alternationFilter(sigs), statsLocals(capital), 0))

-----------------------------------------------------------------------------
(* Comparison with buy and hold *)

\* the record compareWithHoldStrategy returns without data or without signals
noPerformance ==
    [totalProfit |-> R(0), totalTrades |-> 0, winningTrades |-> 0, losingTrades |-> 0,
     winRate |-> R(0), averageGain |-> R(0), maxDrawdown |-> R(0),
     holdPerformance |-> R(0), outperformsHold |-> FALSE]

\* the locals of compareWithHoldStrategy before signals.forEach
compareLocals(capital) ==
    [balance |-> capital, trades |-> << >>, inPosition |-> FALSE,
     entryPrice |-> R(0), entryTime |-> 0]

\* the signals.forEach callback: enter on a buy when flat, exit on a sell when
\* in position
compareStep(loc, signal) ==
    IF signal.type = "buy" /\ ~loc.inPosition
    THEN [loc EXCEPT !.entryPrice = signal.price, !.entryTime = signal.time,
                     !.inPosition = TRUE]
    ELSE IF signal.type = "sell" /\ loc.inPosition
    THEN LET exitPrice == signal.price
             profit == Mul(Div(Sub(exitPrice, loc.entryPrice), loc.entryPrice),
                           loc.balance)
         IN  [loc EXCEPT
                 !.trades = Append(@,
                     [entryPrice |-> loc.entryPrice,
                      exitPrice |-> exitPrice,
                      entryTime |-> loc.entryTime,
                      exitTime |-> signal.time,
                      profit |-> profit,
                      percentageGain |->
                          Mul(Div(Sub(exitPrice, loc.entryPrice), loc.entryPrice),
                              R(100))]),
                 !.balance = Add(@, profit),
                 !.inPosition = FALSE]
    ELSE loc

\* signals.forEach from signal j on (j from 0)
RECURSIVE compareLoop(_, _, _)
compareLoop(sigs, loc, j) ==
    IF j >= Len(sigs) THEN loc
    ELSE compareLoop(sigs, compareStep(loc, At(sigs, j)), j + 1)

\* the locals of the drawdown pass before trades.forEach
drawdownLocals(capital) ==
    [maxDrawdown |-> R(0), peak |-> NegInf, tempBalance |-> capital]

\* the trades.forEach callback of the drawdown pass
drawdownStep(acc, trade) ==
    LET tempBalance == Add(acc.tempBalance, trade.profit)
        peak == IF Gt(tempBalance, acc.peak) THEN tempBalance ELSE acc.peak
        drawdown == Mul(Div(Sub(peak, tempBalance), peak), R(100))
    IN  [maxDrawdown |-> MathMax(acc.maxDrawdown, drawdown),
         peak |-> peak, tempBalance |-> tempBalance]

RECURSIVE drawdownLoop(_, _, _)
drawdownLoop(tradeList, acc, j) ==
    IF j >= Len(tradeList) THEN acc
    ELSE drawdownLoop(tradeList, drawdownStep(acc, At(tradeList, j)), j + 1)

\* the trades compareWithHoldStrategy derives from the signals
compareTrades(sigs, capital) ==
    compareLoop(sigs, compareLocals(capital), 0).trades

\* the record returned once both passes have run
compareResult(d, capital, loc, acc) ==
    LET firstPrice == At(d, 0).close
        lastPrice == At(d, Len(d) - 1).close
        holdProfit == Mul(Div(Sub(lastPrice, firstPrice), firstPrice), capital)
        holdPerformance == Mul(Div(Sub(lastPrice, firstPrice), firstPrice), R(100))
        totalProfit == Sub(loc.balance, capital)
        winning == Cardinality({j \in 1..Len(loc.trades) : Gt(loc.trades[j].profit, R(0))})
        losing == Cardinality({j \in 1..Len(loc.trades) : Le(loc.trades[j].profit, R(0))})
    IN  [totalProfit |-> totalProfit,
         totalTrades |-> Len(loc.trades),
         winningTrades |-> winning,
         losingTrades |-> losing,
         winRate |-> IF Len(loc.trades) > 0
                     THEN Mul(Div(R(winning), R(Len(loc.trades))), R(100)) ELSE R(0),
         averageGain |-> IF Len(loc.trades) > 0
                         THEN Div(SumNums([j \in 1..Len(loc.trades) |->
                                              loc.trades[j].percentageGain]),
                                  R(Len(loc.trades)))
                         ELSE R(0),
         maxDrawdown |-> acc.maxDrawdown,
         holdPerformance |-> holdPerformance,
         outperformsHold |-> Gt(totalProfit, holdProfit)]

comparePasses(d, capital, loc) ==
    compareResult(d, capital, loc, drawdownLoop(loc.trades, drawdownLocals(capital), 0))

compareWithHoldStrategy(d, sigs, capital) ==
    IF Len(d) = 0 \/ Len(sigs) = 0 THEN noPerformance
    ELSE comparePasses(d, capital, compareLoop(sigs, compareLocals(capital), 0))

-----------------------------------------------------------------------------
(* Inputs explored by the model *)

\* number of free candles after a flat run of fewer than LongRun candles
MaxTail == 2

\* number of free candles after a flat run of LongRun candles or more
MaxLongTail == 1

\* number of signals in a list passed to calculateTradingStats
MaxSignals == 4

LongRun == 20

Day == 24 * 60 * 60

\* the integer a number holds, for a whole number below 2^31 in magnitude
IntOf(x) ==
    IF IsZero(x) THEN 0
    ELSE LET Whole(m) == (IF x.neg THEN -1 ELSE 1) * (m.hi * B28 + m.lo)
         IN  Whole(ShiftRight(Bits(x.exp, x.hi, x.lo, FALSE), -x.exp))

Kline(time, open, high, low, close, volume) ==
    [time |-> time, open |-> R(open), high |-> R(high), low |-> R(low),
     close |-> R(close), volume |-> R(volume)]

\* the candle of spec scenario A: open = close = 100, high = 101, low = 99, volume = 1000
FlatCandle(j) == Kline(j * Day, 100, 101, 99, 100, 1000)

\* a series of n candles that all open and close at c
FlatSeries(c, n) ==
    [j \in 1..n |-> Kline((j - 1) * Day, c, c + 1, c - 1, c, 1000)]

\* the close of scenario A, and a close c for which c * k + c * (1 - k) is not c
\* in doubles for k = 2 / 26
FlatCloses == {5, 100}

TailCloses == {90, 100, 110}

TailVolumes == {1000, 5000}

\* candle j closing at c with volume v, opening at the previous close
NextCandle(prev, j, c, v) ==
    LET o == IntOf(prev.close)
    IN  Kline(j * Day, o, Max2(o, c) + 1, Min2(o, c) - 1, c, v)

FirstCandle(c, v) == Kline(0, c, c + 1, c - 1, c, v)

\* every series made of run flat candles followed by exactly n free candles
RECURSIVE Extend(_, _)
Extend(run, n) ==
    IF n = 0 THEN {[j \in 1..run |-> FlatCandle(j - 1)]}
    ELSE {IF s = << >> THEN <<FirstCandle(c, v)>>
          ELSE Append(s, NextCandle(s[Len(s)], Len(s), c, v)) :
              s \in Extend(run, n - 1), c \in TailCloses, v \in TailVolumes}

SeriesOf(run) ==
    UNION {Extend(run, n) : n \in 0..(IF run >= LongRun THEN MaxLongTail ELSE MaxTail)}

\* flat runs on both sides of every minimum-history guard of the indicators
IndicatorRuns == {0, 6, 14, 25, 98}

\* flat series away from 100, just long enough for period 25 and for period 99
OffLevelSeries == {FlatSeries(c, n) : c \in {5, 110}, n \in {25, 99}}

IndicatorSeries == UNION {SeriesOf(run) : run \in IndicatorRuns} \cup OffLevelSeries

EMAPeriods == {7, 25, 99}

RSIPeriods == {14, 21}

SignalRuns == {0, 25, 98}

SignalSeries == UNION {SeriesOf(run) : run \in SignalRuns}

\* StrategyParams as TradingSimulator.runSimulation builds them (without
\* rsiOverbought and rsiOversold, which the engine never reads), with and
\* without a timeframe
\* a volumeThreshold of 0 is an absent one; other thresholds than the simulator's
\* default 1.5 only with the volume filter enabled
Strategies ==
    {st \in [type : {"ema_cross", "rsi_oversold", "macd_cross", "multi"},
             fastEma : {7}, slowEma : {25}, rsiPeriod : {14},
             useVolume : BOOLEAN, volumeThreshold : {R(0), Rat(3, 2), R(5)},
             timeframe : {"all", "1m", "undefined"}] :
        st.useVolume \/ st.volumeThreshold = Rat(3, 2)}

\* the clock, at and after the open of the last candle of the longest series
Clocks == {100 * Day, 101 * Day}

SignalPrices == {70, 90, 100, 110}

SignalChoices ==
    [type : {"buy", "sell"}, price : {R(c) : c \in SignalPrices}]

\* the signal list of the choices f, signal j having time j
SignalsFrom(f) ==
    [j \in DOMAIN f |->
        [time |-> j - 1, type |-> f[j].type, price |-> f[j].price, reason |-> "signal"]]

Capitals == {R(1000)}

\* the double 2^e, -1022 <= e <= 1023
PowerOfTwo(e) == Finite(FALSE, e - 52, 2^24, 0)

\* calls of calculateTradingStats at the edges of the doubles. The first is a
\* capital divided by 2^30 twice, so that peakCapital - currentCapital rounds to
\* peakCapital; the others are a sell price less than 2^-54 of the buy price,
\* a capital that underflows, and a capital given as a subnormal number
ExtremeCalls ==
    LET buy(price) == [type |-> "buy", price |-> price]
        sell(price) == [type |-> "sell", price |-> price]
    IN  {[signals |-> <<buy(R(2^30)), sell(R(1)), buy(R(2^30)), sell(R(1))>>,
          initialCapital |-> R(1000)],
         [signals |-> <<buy(R(15)), sell(PowerOfTwo(-60))>>,
          initialCapital |-> R(1000)],
         [signals |-> <<buy(R(2^30)), sell(R(1)), buy(R(2^30)), sell(R(1))>>,
          initialCapital |-> PowerOfTwo(-1000)],
         [signals |-> <<buy(R(2)), sell(PowerOfTwo(-38))>>,
          initialCapital |-> Finite(FALSE, MinExp, 0, 3)]}

-----------------------------------------------------------------------------
(* State machines *)

Idle == << >>

\* the variables of a calculateTradingStats call, before the call
StatsIdle ==
    /\ validSignals = Idle /\ i = 0
    /\ currentCapital = R(0) /\ peakCapital = R(0) /\ maxDrawdown = R(0)
    /\ winningTrades = 0 /\ trades = << >> /\ stats = Idle

EngineIdle ==
    /\ data = Idle /\ strategy = Idle /\ now = 0 /\ period = 0 /\ result = Idle

statsVars == <<signals, initialCapital, validSignals, i, currentCapital, peakCapital,
               maxDrawdown, winningTrades, trades, stats>>

engineVars == <<data, strategy, now, period, result>>

uiVars == <<dashboard, simulator, requests, issued>>

\* no dashboard is mounted
UiIdle == dashboard = Idle /\ simulator = Idle /\ requests = {} /\ issued = Idle

\* the locals of the running calculateTradingStats call, as tradeStep takes them
Locals ==
    [currentCapital |-> currentCapital, peakCapital |-> peakCapital,
     maxDrawdown |-> maxDrawdown, winningTrades |-> winningTrades, trades |-> trades]

SetLocals(loc) ==
    /\ currentCapital' = loc.currentCapital
    /\ peakCapital' = loc.peakCapital
    /\ maxDrawdown' = loc.maxDrawdown
    /\ winningTrades' = loc.winningTrades
    /\ trades' = loc.trades

\* calculateTradingStats up to its loop: the locals and the alternation filter
StatsBegin ==
    /\ pc = "stats_call"
    /\ SetLocals(statsLocals(initialCapital))
    /\ validSignals' = alternationFilter(signals)
    /\ i' = 0
    /\ pc' = "stats_loop"
    /\ UNCHANGED <<signals, initialCapital, stats, engineVars, uiVars>>

\* one iteration of the pairing loop
StatsIterate ==
    /\ pc = "stats_loop"
    /\ i < Len(validSignals) - 1
    /\ SetLocals(tradeStep(Locals, At(validSignals, i), At(validSignals, i + 1)))
    /\ i' = i + 2
    /\ UNCHANGED <<pc, signals, initialCapital, validSignals, stats, engineVars, uiVars>>

\* the loop has ended: totals, buy-and-hold baseline and the returned record
StatsReturn ==
    /\ pc = "stats_loop"
    /\ ~(i < Len(validSignals) - 1)
    /\ stats' = statsResult(signals, initialCapital, Locals)
    /\ pc' = "stats_done"
    /\ UNCHANGED <<signals, initialCapital, validSignals, i, currentCapital, peakCapital,
                   maxDrawdown, winningTrades, trades, engineVars, uiVars>>

Init ==
    /\ pc = "stats_call"
    /\ \/ /\ \E n \in 0..MaxSignals : \E f \in [1..n -> SignalChoices] :
                 signals = SignalsFrom(f)
          /\ initialCapital \in Capitals
       \/ \E call \in ExtremeCalls :
              /\ signals = SignalsFrom(call.signals)
              /\ initialCapital = call.initialCapital
    /\ StatsIdle
    /\ UiIdle
    /\ EngineIdle

Next == StatsBegin \/ StatsIterate \/ StatsReturn

Spec == Init /\ [][Next]_vars

\* one call of an indicator on the series
CallEMA ==
    /\ pc = "indicator_call"
    /\ \E p \in EMAPeriods : period' = p /\ result' = calculateEMA(data, p)
    /\ pc' = "ema_done"
    /\ UNCHANGED <<data, strategy, now, statsVars, uiVars>>

CallRSI ==
    /\ pc = "indicator_call"
    /\ \E p \in RSIPeriods : period' = p /\ result' = calculateRSI(data, p)
    /\ pc' = "rsi_done"
    /\ UNCHANGED <<data, strategy, now, statsVars, uiVars>>

CallMACD ==
    /\ pc = "indicator_call"
    /\ result' = calculateMACD(data)
    /\ pc' = "macd_done"
    /\ UNCHANGED <<data, strategy, now, period, statsVars, uiVars>>

InitIndicators ==
    /\ pc = "indicator_call"
    /\ data \in IndicatorSeries
    /\ strategy = Idle /\ now = 0 /\ period = 0 /\ result = Idle
    /\ signals = << >> /\ initialCapital = R(0)
    /\ StatsIdle
    /\ UiIdle

NextIndicators == CallEMA \/ CallRSI \/ CallMACD

SpecIndicators == InitIndicators /\ [][NextIndicators]_vars

\* one call of generateSignals
CallGenerateSignals ==
    /\ pc = "signals_call"
    /\ result' = generateSignals(data, strategy, now)
    /\ pc' = "signals_done"
    /\ UNCHANGED <<data, strategy, now, period, statsVars, uiVars>>

InitSignals ==
    /\ pc = "signals_call"
    /\ data \in SignalSeries
    /\ strategy \in Strategies
    /\ now \in Clocks
    /\ period = 0 /\ result = Idle
    /\ signals = << >> /\ initialCapital = R(0)
    /\ StatsIdle
    /\ UiIdle

NextSignals == CallGenerateSignals

SpecSignals == InitSignals /\ [][NextSignals]_vars

\* number of days the clock may advance between two calls of generateSignals
MaxWait == 4

\* the default of calculateTradingStats's parameter initialCapital
DefaultCapital == R(10000)

\* TradingSimulator.runSimulation has stored the returned list (setSignals) and
\* its statistics on the default capital (setStats), and the clock has advanced
\* before the simulation is run again on the same inputs. runSimulation itself
\* builds its StrategyParams without a timeframe; the other values of timeframe
\* are those the exported generateSignals accepts from any caller
ClockAdvances ==
    /\ pc = "signals_done"
    /\ signals' = result
    /\ initialCapital' = DefaultCapital
    /\ stats' = calculateTradingStats(result, DefaultCapital)
    /\ \E d \in 1..MaxWait : now' = now + d * Day
    /\ pc' = "signals_recall"
    /\ UNCHANGED <<data, strategy, period, result, validSignals, i,
                   currentCapital, peakCapital, maxDrawdown, winningTrades, trades, uiVars>>

\* the second call of generateSignals, on the same series and StrategyParams
CallGenerateSignalsAgain ==
    /\ pc = "signals_recall"
    /\ result' = generateSignals(data, strategy, now)
    /\ pc' = "signals_redone"
    /\ UNCHANGED <<data, strategy, now, period, statsVars, uiVars>>

NextRepeat == CallGenerateSignals \/ ClockAdvances \/ CallGenerateSignalsAgain

SpecRepeat == InitSignals /\ [][NextRepeat]_vars

\* series lengths on both sides of the minimum history of every indicator and
\* detector
HistoryLengths == {0, 1, 2, 3, 14, 15, 19, 20, 21, 22, 25, 26, 33, 34, 40, 41, 98, 99, 100}

\* a candle that opens one above or below its own close, whatever the close of
\* the candle before it (a gap)
GapCandle(j, o, c) == Kline(j * Day, o, Max2(o, c) + 1, Min2(o, c) - 1, c, 1000)

\* flat runs followed by one candle that closes away from the run and opens
\* next to its own close
GapSeries ==
    {Append(FlatSeries(100, n - 1), GapCandle(n - 1, c + g, c)) :
        n \in {26, 99, 100}, c \in {90, 110}, g \in {-1, 1}}

\* 98 flat candles at 5, where the EMA of period 25 drifts off 5 in doubles,
\* followed by one candle that closes one below or one above
LowLevelSeries ==
    {Append(FlatSeries(5, 98), NextCandle(FlatSeries(5, 98)[98], 98, c, v)) :
        c \in {4, 6}, v \in TailVolumes}

\* flat series, and flat runs followed by one free candle, of these lengths
DetectorSeries ==
    {FlatSeries(c, n) : c \in FlatCloses, n \in HistoryLengths}
    \cup UNION {Extend(n - 1, 1) : n \in HistoryLengths \ {0}}
    \cup GapSeries
    \cup LowLevelSeries

\* the period generateRSISignals passes to calculateSMA, and a shorter one
SMAPeriods == {3, 20}

CallSMA ==
    /\ pc = "indicator_call"
    /\ \E p \in SMAPeriods : period' = p /\ result' = calculateSMA(data, p)
    /\ pc' = "sma_done"
    /\ UNCHANGED <<data, strategy, now, statsVars, uiVars>>

CallEMASignals ==
    /\ pc = "indicator_call"
    /\ \E fastPeriod \in EMAPeriods, slowPeriod \in EMAPeriods :
        /\ strategy' = [fastEma |-> fastPeriod, slowEma |-> slowPeriod]
        /\ result' = generateEMASignals(data, fastPeriod, slowPeriod)
    /\ pc' = "ema_signals_done"
    /\ UNCHANGED <<data, now, period, statsVars, uiVars>>

CallRSISignals ==
    /\ pc = "indicator_call"
    /\ \E p \in RSIPeriods : period' = p /\ result' = generateRSISignals(data, p)
    /\ pc' = "rsi_signals_done"
    /\ UNCHANGED <<data, strategy, now, statsVars, uiVars>>

CallMACDSignals ==
    /\ pc = "indicator_call"
    /\ result' = generateMACDSignals(data)
    /\ pc' = "macd_signals_done"
    /\ UNCHANGED <<data, strategy, now, period, statsVars, uiVars>>

\* generateSignals over the whole series, the volume threshold being the
\* simulator's 1.5
CallSignalsOnSeries ==
    /\ pc = "indicator_call"
    /\ \E st \in {x \in Strategies : x.timeframe = "all" /\ x.volumeThreshold = Rat(3, 2)} :
        /\ strategy' = st
        /\ result' = generateSignals(data, st, now)
    /\ pc' = "signals_done"
    /\ UNCHANGED <<data, now, period, statsVars, uiVars>>

InitDetectors ==
    /\ pc = "indicator_call"
    /\ data \in DetectorSeries
    /\ strategy = Idle /\ now = 0 /\ period = 0 /\ result = Idle
    /\ signals = << >> /\ initialCapital = R(0)
    /\ StatsIdle
    /\ UiIdle

NextDetectors ==
    \/ CallEMA \/ CallRSI \/ CallMACD \/ CallSMA
    \/ CallEMASignals \/ CallRSISignals \/ CallMACDSignals \/ CallSignalsOnSeries

SpecDetectors == InitDetectors /\ [][NextDetectors]_vars

\* candle series for compareWithHoldStrategy: none, one candle, and a second
\* candle closing below, at or above the first
CompareSeries ==
    {<< >>, <<FlatCandle(0)>>}
    \cup {<<FlatCandle(0), NextCandle(FlatCandle(0), 1, c, 1000)>> : c \in TailCloses}

CompareChoices ==
    [type : {"buy", "sell"}, price : {R(c) : c \in TailCloses}]

\* compareWithHoldStrategy on the series and the signal list; calculateTradingStats
\* is then run on the same list and capital
CallCompare ==
    /\ pc = "compare_call"
    /\ result' = compareWithHoldStrategy(data, signals, initialCapital)
    /\ pc' = "stats_call"
    /\ UNCHANGED <<data, strategy, now, period, statsVars, uiVars>>

InitCompare ==
    /\ pc = "compare_call"
    /\ data \in CompareSeries
    /\ \E n \in 0..MaxSignals : \E f \in [1..n -> CompareChoices] : signals = SignalsFrom(f)
    /\ initialCapital \in Capitals
    /\ strategy = Idle /\ now = 0 /\ period = 0 /\ result = Idle
    /\ StatsIdle
    /\ UiIdle

NextCompare == CallCompare \/ StatsBegin \/ StatsIterate \/ StatsReturn

SpecCompare == InitCompare /\ [][NextCompare]_vars

-----------------------------------------------------------------------------
(* Properties of generateSignals (SpecSignals) *)

\* a type sequence that is empty or strictly alternates starting with buy
Alternating(s) ==
    \/ s = << >>
    \/ /\ s[1].type = "buy"
       /\ \A j \in 2..Len(s) : s[j].type # s[j - 1].type

\* C1: for every series and every StrategyParams, volume filter enabled or not,
\* the list generateSignals returns is empty or strictly alternating starting
\* with buy
C1_ReturnedSignalsAlternate ==
    pc = "signals_done" => Alternating(result)

-----------------------------------------------------------------------------
(* Properties of the indicators (SpecIndicators) *)

\* C2, on the series for which calculateEMA returns points (those of at least
\* period candles): calculateEMA returns one point per candle and its first
\* value is the first close
C2_FirstValueIsFirstClose ==
    pc = "ema_done" /\ Len(data) >= period =>
        /\ Len(result) = Len(data)
        /\ result[1].value = data[1].close

\* C3: for every series of at least period + 1 candles, flat ones included,
\* every RSI value is a number within [0, 100]: none is NaN or infinite
C3_RSIWithinRange ==
    pc = "rsi_done" /\ Len(data) >= period + 1 =>
        \A j \in 1..Len(result) :
            /\ IsFinite(result[j].value)
            /\ Ge(result[j].value, R(0))
            /\ Le(result[j].value, R(100))

\* C4: whenever the seed or smoothed average loss behind an RSI point is 0, the
\* point's value is 100, the average gain being positive or 0
C4_ZeroLossIsHundred ==
    pc = "rsi_done" /\ Len(data) >= period + 1 =>
        \A j \in 1..Len(result) :
            rsiAverages(data, period)[j].avgLoss = R(0) => result[j].value = R(100)

\* C5: for a series of at least 26 candles, at every index macd is EMA12 - EMA26,
\* signal is the EMA(9) of the macd line seeded with macd[0], and histogram is
\* macd - signal
C5_HistogramIsMacdMinusSignal ==
    pc = "macd_done" /\ Len(data) >= 26 =>
        /\ Len(result) = Len(data)
        /\ LET fastEMA == calculateEMA(data, 12)
               slowEMA == calculateEMA(data, 26)
           IN  \A j \in 1..Len(result) :
                   result[j].macd = Sub(fastEMA[j].value, slowEMA[j].value)
        /\ \A j \in 1..Len(result) :
            /\ result[j].signal =
                   Add(Mul(result[j].macd, Rat(2, 10)),
                       Mul(IF j = 1 THEN result[1].macd ELSE result[j - 1].signal,
                           Sub(R(1), Rat(2, 10))))
            /\ result[j].histogram = Sub(result[j].macd, result[j].signal)

\* a MACD output whose macd, signal and histogram have all left 0
C5_Witness ==
    /\ pc = "macd_done"
    /\ Len(data) >= 26
    /\ \E j \in 1..Len(result) :
        /\ result[j].macd # R(0)
        /\ result[j].signal # R(0)
        /\ result[j].histogram # R(0)
        /\ result[j].histogram # result[j].macd

-----------------------------------------------------------------------------
(* Properties of calculateTradingStats (Spec) *)

ZeroStats(st) ==
    /\ st.totalTrades = 0
    /\ st.winRate = R(0)
    /\ st.maxDrawdown = R(0)
    /\ st.totalProfit = R(0)

\* C6 as stated: totalTrades, winRate, maxDrawdown and totalProfit are 0 for the
\* empty list and for every list that starts with sell or repeats a type
C6_ZeroStatsForNonAlternating ==
    pc = "stats_done" /\ (signals = << >> \/ ~Alternating(signals)) => ZeroStats(stats)

\* capital before trade k of the running call (k from 1)
CapitalBefore(k) ==
    IF k = 1 THEN initialCapital ELSE trades[k - 1].capitalAfterTrade

\* C7: capital is compounded: quantity_k = capital before trade k / entryPrice_k,
\* profit_k = quantity_k * (exitPrice_k - entryPrice_k), capital before trade 1 is
\* initialCapital and before trade k + 1 it is capitalAfterTrade_k = capital before
\* trade k + profit_k; finalCapital is the last capitalAfterTrade, or
\* initialCapital when there is no trade
C7_CapitalIsCompounded ==
    /\ pc \in {"stats_loop", "stats_done"} =>
        /\ \A k \in 1..Len(trades) :
            /\ trades[k].quantity = Div(CapitalBefore(k), trades[k].entryPrice)
            /\ trades[k].profit =
                   Mul(trades[k].quantity, Sub(trades[k].exitPrice, trades[k].entryPrice))
            /\ trades[k].capitalAfterTrade = Add(CapitalBefore(k), trades[k].profit)
        /\ currentCapital = CapitalBefore(Len(trades) + 1)
    /\ pc = "stats_done" =>
        /\ stats.trades = trades
        /\ stats.finalCapital = CapitalBefore(Len(trades) + 1)

\* two trades, the second sized from what the first left
C7_Witness ==
    /\ pc = "stats_done"
    /\ Len(stats.trades) = 2
    /\ stats.trades[1].capitalAfterTrade # initialCapital
    /\ stats.trades[2].quantity # Div(initialCapital, stats.trades[2].entryPrice)
    /\ stats.finalCapital = stats.trades[2].capitalAfterTrade

\* capital after k trades of the running call (k from 0)
CapitalAfter(k) ==
    IF k = 0 THEN initialCapital ELSE trades[k].capitalAfterTrade

\* the largest of a non-empty finite set of numbers
Largest(S) ==
    CHOOSE x \in S : \A y \in S : Ge(x, y)

\* the running maximum of capital after k trades, starting from initialCapital
PeakAfter(k) ==
    Largest({CapitalAfter(m) : m \in 0..k})

\* the percentage decline from the running peak after k trades
DrawdownAfter(k) ==
    Mul(Div(Sub(PeakAfter(k), CapitalAfter(k)), PeakAfter(k)), R(100))

MaxDrawdownIsLargestSoFar ==
    pc \in {"stats_loop", "stats_done"} =>
        /\ peakCapital = PeakAfter(Len(trades))
        /\ maxDrawdown = Largest({DrawdownAfter(k) : k \in 0..Len(trades)})
        /\ pc = "stats_done" => stats.maxDrawdown = maxDrawdown

\* C8: after each trade maxDrawdown is the largest value so far of
\* (peak - capital) / peak * 100, peak being the running maximum of capital from
\* initialCapital; so maxDrawdown never decreases from one trade to the next
C8_MaxDrawdownIsRunningMaximum ==
    /\ []MaxDrawdownIsLargestSoFar
    /\ [][pc = "stats_loop" => Le(maxDrawdown, maxDrawdown')]_vars

\* buy 100 / sell 90 / buy 90 / sell 70 on capital 1000: maxDrawdown 30
C8_Witness ==
    /\ pc = "stats_done"
    /\ initialCapital = R(1000)
    /\ Len(stats.trades) = 2
    /\ stats.trades[1].capitalAfterTrade = R(900)
    /\ stats.trades[2].capitalAfterTrade = R(700)
    /\ stats.maxDrawdown = R(30)

\* C9: for every non-empty list the buy-and-hold baseline uses the price of the
\* first and of the last signal of that list: holdProfitPercentage =
\* (lastPrice - firstPrice) / firstPrice * 100 and holdFinalCapital =
\* initialCapital * (1 + holdProfitPercentage / 100)
C9_HoldBaselineFromFirstAndLastSignal ==
    pc = "stats_done" /\ signals # << >> =>
        /\ stats.holdProfitPercentage =
               Mul(Div(Sub(signals[Len(signals)].price, signals[1].price),
                       signals[1].price), R(100))
        /\ stats.holdFinalCapital =
               Mul(initialCapital, Add(R(1), Div(stats.holdProfitPercentage, R(100))))

\* a list whose first signal is a sell the validation drops: the baseline still
\* starts from its price
C9_Witness ==
    /\ pc = "stats_done"
    /\ Len(signals) >= 3
    /\ signals[1].type = "sell"
    /\ Len(stats.trades) = 1
    /\ stats.trades[1].entryPrice # signals[1].price
    /\ stats.holdProfitPercentage # R(0)
    /\ stats.holdFinalCapital # initialCapital

\* C10: the validated stream is walked FLAT -> LONG -> FLAT: trade k enters on
\* signal 2k - 1 of the stream, a buy, and exits on signal 2k, the sell that
\* follows it; a stream of n signals gives floor(n / 2) trades; a trailing
\* unmatched buy gives no trade and leaves capital unchanged
C10_TradesPairValidatedStream ==
    /\ pc = "stats_loop" => i % 2 = 0 /\ Len(trades) = i \div 2
    /\ pc = "stats_done" =>
        /\ stats.totalTrades = Len(validSignals) \div 2
        /\ Len(stats.trades) = Len(validSignals) \div 2
        /\ \A k \in 1..Len(stats.trades) :
            /\ validSignals[2 * k - 1].type = "buy"
            /\ validSignals[2 * k].type = "sell"
            /\ stats.trades[k].entryPrice = validSignals[2 * k - 1].price
            /\ stats.trades[k].entryTime = validSignals[2 * k - 1].time
            /\ stats.trades[k].exitPrice = validSignals[2 * k].price
            /\ stats.trades[k].exitTime = validSignals[2 * k].time
        /\ Len(validSignals) % 2 = 1 =>
            /\ validSignals[Len(validSignals)].type = "buy"
            /\ stats.finalCapital = CapitalAfter(Len(validSignals) \div 2)

\* a validated stream buy, sell, buy: one trade, the last buy left open
C10_Witness ==
    /\ pc = "stats_done"
    /\ Len(validSignals) = 3
    /\ validSignals[3].type = "buy"
    /\ Len(stats.trades) = 1
    /\ stats.finalCapital = stats.trades[1].capitalAfterTrade
    /\ stats.finalCapital # initialCapital

-----------------------------------------------------------------------------
(* Properties of repeated calls of generateSignals (SpecRepeat) *)

\* C11: two calls of generateSignals with the same series and the same
\* StrategyParams return the same list, whenever each call is made
C11_SameInputsSameSignals ==
    pc = "signals_redone" => result = signals

-----------------------------------------------------------------------------
(* Properties of the minimum-history guards (SpecDetectors) *)

\* every signal of s is a buy or a sell at the time and close of a candle of d
SignalsOnCandles(d, s) ==
    \A j \in 1..Len(s) :
        /\ s[j].type \in {"buy", "sell"}
        /\ \E m \in 1..Len(d) : d[m].time = s[j].time /\ d[m].close = s[j].price

\* C12: with less than the minimum history each function returns the empty
\* list: calculateRSI below period + 1 candles, calculateMACD and
\* generateMACDSignals below 26, calculateSMA below period, generateEMASignals
\* below max(fast, slow, 99), generateRSISignals below period + 20,
\* generateSignals below 2; with the minimum or more each call returns a list
C12_InsufficientHistoryIsEmpty ==
    /\ pc = "rsi_done" =>
        IF Len(data) < period + 1 THEN result = << >>
        ELSE Len(result) = Len(data) - period
    /\ pc = "macd_done" =>
        IF Len(data) < 26 THEN result = << >> ELSE Len(result) = Len(data)
    /\ pc = "sma_done" =>
        IF Len(data) < period THEN result = << >>
        ELSE Len(result) = Len(data) - period + 1
    /\ pc = "ema_signals_done" =>
        IF Len(data) < Max2(Max2(strategy.fastEma, strategy.slowEma), 99)
        THEN result = << >> ELSE SignalsOnCandles(data, result)
    /\ pc = "rsi_signals_done" =>
        IF Len(data) < period + 20 THEN result = << >>
        ELSE SignalsOnCandles(data, result)
    /\ pc = "macd_signals_done" =>
        IF Len(data) < 26 THEN result = << >> ELSE SignalsOnCandles(data, result)
    /\ pc = "signals_done" =>
        IF Len(data) < 2 THEN result = << >> ELSE SignalsOnCandles(data, result)

\* 25 candles ending on a move that 26 candles would turn into a MACD signal
C12_Witness ==
    /\ pc = "macd_signals_done"
    /\ Len(data) = 25
    /\ data[25].close # data[24].close
    /\ result = << >>
    /\ generateMACDSignals(data \o <<NextCandle(data[25], 25, 100, 1000)>>) # << >>

-----------------------------------------------------------------------------
(* Properties of the timeframe and volume filters (SpecSignals) *)

\* the length in days of a configured window
WindowDays(timeframe) ==
    CASE timeframe = "1m" -> 30 [] timeframe = "3m" -> 90 [] timeframe = "6m" -> 180

\* the candles of d the detectors are to run on: those inside the window, all
\* of them when the timeframe is "all" or not configured
WindowOf(d, timeframe, nowSec) ==
    Filter(d, [j \in 1..Len(d) |->
                  \/ timeframe \in {"all", "undefined"}
                  \/ nowSec - d[j].time < WindowDays(timeframe) * Day])

\* C13: generateSignals runs the detectors on exactly the candles inside the
\* configured window, on the whole series when the timeframe is "all" or not
\* configured, and returns no signal at a time outside the window
C13_DetectorsRunOnWindow ==
    pc = "signals_done" =>
        /\ result = signalsOfFiltered(WindowOf(data, strategy.timeframe, now), strategy)
        /\ \A j \in 1..Len(result) :
            \E m \in 1..Len(WindowOf(data, strategy.timeframe, now)) :
                WindowOf(data, strategy.timeframe, now)[m].time = result[j].time

\* the signals of sigs whose candle in fd has a volume above mean * threshold
AboveVolume(fd, sigs, mean, threshold) ==
    Filter(sigs, [j \in 1..Len(sigs) |->
                     \E m \in 1..Len(fd) :
                         /\ fd[m].time = sigs[j].time
                         /\ Gt(fd[m].volume, Mul(mean, threshold))])

\* what generateSignals is to return from the detector signals sigs on the
\* filtered series fd
VolumeRule(fd, sigs, st, returned) ==
    IF st.useVolume /\ Len(sigs) > 0
    THEN returned =
             AboveVolume(fd, sigs,
                         Div(SumNums([m \in 1..Len(fd) |-> fd[m].volume]), R(Len(fd))),
                         IF st.volumeThreshold = R(0) THEN Rat(3, 2)
                         ELSE st.volumeThreshold)
    ELSE returned = alternationFilter(sortByTime(sigs))

VolumeRuleOn(fd, st, returned) ==
    Len(fd) >= 2 => VolumeRule(fd, detectorSignals(fd, st), st, returned)

\* C14: with the volume filter enabled and at least one detector signal,
\* generateSignals keeps a signal only if the candle of the filtered series with
\* its time has a volume strictly above the mean volume of that series times the
\* threshold, 1.5 when none is configured; with the filter disabled or no signal,
\* no signal is dropped because of volume
C14_VolumeFilterKeepsSurges ==
    pc = "signals_done" /\ Len(data) >= 2 =>
        VolumeRuleOn(filterDataByTimeframe(data, strategy.timeframe, now), strategy, result)

\* a detector signal on a candle of volume 5000, above 1.5 times the mean but
\* not above 5 times the mean, dropped by a threshold of 5
C14_Witness ==
    /\ pc = "signals_done"
    /\ strategy.useVolume
    /\ strategy.volumeThreshold = R(5)
    /\ strategy.timeframe = "all"
    /\ Len(data) >= 26
    /\ data[Len(data)].volume = R(5000)
    /\ detectorSignals(data, strategy) # << >>
    /\ result = << >>
    /\ generateSignals(data, [strategy EXCEPT !.volumeThreshold = R(0)], now) # << >>

-----------------------------------------------------------------------------
(* Properties of the warm-up offsets (SpecIndicators) *)

\* result has one point per candle of data after the first offset candles, point
\* j carrying the time of candle j + offset (j from 1)
AlignedAfter(offset) ==
    /\ Len(result) = Len(data) - offset
    /\ \A j \in 1..Len(result) : result[j].time = data[j + offset].time

\* C15 as stated: calculateRSI, with offset period, and calculateMACD, with
\* offset 26, return a series of the input length minus the offset whose j-th
\* point carries the time of candle j + offset, and the empty series when the
\* input is shorter than the minimum history
C15_LengthIsInputMinusOffset ==
    /\ pc = "rsi_done" =>
        IF Len(data) < period + 1 THEN result = << >> ELSE AlignedAfter(period)
    /\ pc = "macd_done" =>
        IF Len(data) < 26 THEN result = << >> ELSE AlignedAfter(26)

\* C15 amended: calculateRSI returns the input length minus period points, the
\* j-th carrying the time of candle j + period; calculateMACD returns one point
\* per candle, the j-th carrying the time of candle j; each returns the empty
\* series when the input is shorter than its minimum history (period + 1, 26)
C15_RSIOffsetPeriodMACDOffsetZero ==
    /\ pc = "rsi_done" =>
        IF Len(data) < period + 1 THEN result = << >> ELSE AlignedAfter(period)
    /\ pc = "macd_done" =>
        IF Len(data) < 26 THEN result = << >> ELSE AlignedAfter(0)

\* an RSI series of several points over a series that moves
C15_Witness ==
    /\ pc = "rsi_done"
    /\ Len(data) >= period + 2
    /\ Len(result) = Len(data) - period
    /\ result[1].time = data[period + 1].time
    /\ result[Len(result)].value # result[1].value

-----------------------------------------------------------------------------
(* Properties of calculateTradingStats on the empty list (Spec) *)

\* C16: for the empty signal list every numeric field of the returned record is
\* a finite number, holdProfitPercentage is 0 and holdFinalCapital is
\* initialCapital
C16_EmptyListGivesFiniteStats ==
    pc = "stats_done" /\ signals = << >> =>
        /\ \A f \in {"totalProfit", "profitPercentage", "winRate", "maxDrawdown",
                     "finalCapital", "holdProfitPercentage", "holdFinalCapital"} :
            IsFinite(stats[f])
        /\ stats.holdProfitPercentage = R(0)
        /\ stats.holdFinalCapital = initialCapital

-----------------------------------------------------------------------------
(* Properties of a flat market (SpecDetectors) *)

\* every candle of d opens and closes at the close of the first
IsFlat(d) ==
    \A j \in 1..Len(d) : d[j].close = d[1].close /\ d[j].open = d[j].close

\* C17 as stated: on a flat series of at least period candles calculateEMA
\* returns the close at every point, and generateEMASignals returns no signal for
\* any pair of periods, whatever the length of the series
C17_FlatMarketGivesConstantEMAAndNoSignal ==
    /\ pc = "ema_done" /\ IsFlat(data) /\ Len(data) >= period =>
        /\ Len(result) = Len(data)
        /\ \A j \in 1..Len(result) : result[j].value = data[1].close
    /\ pc = "ema_signals_done" /\ IsFlat(data) => result = << >>

\* 2^-40: the relative distance within which the EMA of a flat series stays
\* from the close (each step rounds three results, each within 2^-53)
FlatTolerance == Div(R(1), Mul(R(2^20), R(2^20)))

\* x is within FlatTolerance of c, relatively; c > 0
CloseTo(x, c) ==
    /\ Le(Sub(x, c), Mul(c, FlatTolerance))
    /\ Le(Sub(c, x), Mul(c, FlatTolerance))

\* c * k + c * (1 - k) with k = 2 / (p + 1) is c in doubles
FlatStepIsExact(c, p) ==
    LET k == Div(R(2), R(p + 1))
    IN  Add(Mul(c, k), Mul(c, Sub(R(1), k))) = c

\* C17 amended: on a flat series of at least period candles calculateEMA returns
\* one point per candle, the close c at every point when c * k + c * (1 - k) is
\* c in doubles and a value within rounding of c (2^-40, relatively) at every
\* point otherwise; generateEMASignals returns no signal for any pair of
\* periods, whatever the length of the series
C17_FlatMarketGivesNearConstantEMAAndNoSignal ==
    /\ pc = "ema_done" /\ IsFlat(data) /\ Len(data) >= period =>
        /\ Len(result) = Len(data)
        /\ \A j \in 1..Len(result) :
            IF FlatStepIsExact(data[1].close, period)
            THEN result[j].value = data[1].close
            ELSE CloseTo(result[j].value, data[1].close)
    /\ pc = "ema_signals_done" /\ IsFlat(data) => result = << >>

\* a flat series at 5, long enough for the trend EMA, gone through
\* generateEMASignals with fast period 7, whose EMA stays at 5, and slow period
\* 25, whose EMA has left 5
C17_Witness ==
    /\ pc = "ema_signals_done"
    /\ IsFlat(data)
    /\ Len(data) >= 99
    /\ data[1].close = R(5)
    /\ strategy.fastEma = 7
    /\ strategy.slowEma = 25
    /\ result = << >>
    /\ calculateEMA(data, 7)[Len(data)].value = R(5)
    /\ calculateEMA(data, 25)[Len(data)].value # R(5)

-----------------------------------------------------------------------------
(* Properties of compareWithHoldStrategy (SpecCompare) *)

\* the profit of buying at the first signal and selling at the last, on capital
HoldProfitOfSignals(sigs, capital) ==
    Mul(Div(Sub(sigs[Len(sigs)].price, sigs[1].price), sigs[1].price), capital)

\* C18: outperformsHold is true exactly when totalProfit is strictly greater
\* than the buy-and-hold profit on the same capital, computed from the price of
\* the first and of the last signal
C18_OutperformsHoldOfSignals ==
    pc = "stats_call" /\ data # << >> /\ signals # << >> =>
        (result.outperformsHold <=>
            Gt(result.totalProfit, HoldProfitOfSignals(signals, initialCapital)))

\* C19: compareWithHoldStrategy and calculateTradingStats derive the same trades
\* from every signal list: same totalTrades, same entry and exit price and same
\* profit per trade, same winningTrades, winRate and totalProfit
C19_SameTradesAsTradingStats ==
    pc = "stats_done" /\ data # << >> =>
        /\ result.totalTrades = stats.totalTrades
        /\ Len(compareTrades(signals, initialCapital)) = Len(stats.trades)
        /\ \A k \in 1..Len(stats.trades) :
            /\ compareTrades(signals, initialCapital)[k].entryPrice
                   = stats.trades[k].entryPrice
            /\ compareTrades(signals, initialCapital)[k].exitPrice
                   = stats.trades[k].exitPrice
            /\ compareTrades(signals, initialCapital)[k].profit = stats.trades[k].profit
        /\ result.winningTrades = stats.winningTrades
        /\ result.winRate = stats.winRate
        /\ result.totalProfit = stats.totalProfit

\* C20: compareWithHoldStrategy reports the maxDrawdown calculateTradingStats
\* reports: the largest percentage decline of the balance from its running peak,
\* the peak being at least the initial capital
C20_SameMaxDrawdownAsTradingStats ==
    pc = "stats_done" /\ data # << >> => result.maxDrawdown = stats.maxDrawdown

-----------------------------------------------------------------------------
(* Properties of the alternation pass (SpecValidation) *)

\* calls of generateSignals on a series and of calculateTradingStats on a signal
\* list, each from its own initial states
InitValidation == Init \/ InitSignals

NextValidation == CallGenerateSignals \/ StatsBegin \/ StatsIterate \/ StatsReturn

SpecValidation == InitValidation /\ [][NextValidation]_vars

\* the specified walk from element j (0-based) of s, last being the type of the
\* previously retained signal ("none" before the first): the first retained
\* signal is a buy, each later one differs in type from the one retained before
RECURSIVE WalkFrom(_, _, _)
WalkFrom(s, j, last) ==
    IF j >= Len(s) THEN << >>
    ELSE IF (last = "none" /\ At(s, j).type = "buy")
            \/ (last # "none" /\ At(s, j).type # last)
         THEN <<At(s, j)>> \o WalkFrom(s, j + 1, At(s, j).type)
         ELSE WalkFrom(s, j + 1, last)

SpecifiedWalk(s) == WalkFrom(s, 0, "none")

\* r can be obtained from s by dropping elements
RECURSIVE IsSubsequence(_, _)
IsSubsequence(r, s) ==
    IF r = << >> THEN TRUE
    ELSE IF s = << >> THEN FALSE
    ELSE IF Head(r) = Head(s) THEN IsSubsequence(Tail(r), Tail(s))
    ELSE IsSubsequence(r, Tail(s))

NonDecreasingTime(s) == \A j \in 1..(Len(s) - 1) : s[j].time <= s[j + 1].time

\* kept is what the walk retains of the time-sorted list sorted, and a
\* subsequence of it
RetainedByWalk(sorted, kept) ==
    /\ NonDecreasingTime(sorted)
    /\ kept = SpecifiedWalk(sorted)
    /\ IsSubsequence(kept, sorted)

PassOfGenerateSignals(fd, sigs, st, returned) ==
    ~(st.useVolume /\ Len(sigs) > 0) => RetainedByWalk(sortByTime(sigs), returned)

PassOfGenerateSignalsOn(fd, st, returned) ==
    Len(fd) >= 2 => PassOfGenerateSignals(fd, detectorSignals(fd, st), st, returned)

\* C21: the alternation pass of generateSignals (on the time-sorted detector
\* signals, whenever the pass is run) and of calculateTradingStats (on the list
\* passed in) retains exactly the signals of the specified walk, and the result
\* is a subsequence of the list it filters
C21_AlternationPassIsSpecifiedWalk ==
    /\ pc = "signals_done" /\ Len(data) >= 2 =>
           PassOfGenerateSignalsOn(filterDataByTimeframe(data, strategy.timeframe, now),
                                   strategy, result)
    /\ pc \in {"stats_loop", "stats_done"} => RetainedByWalk(signals, validSignals)

\* calculateTradingStats has filtered a list with a leading sell and a repeated
\* buy, keeping the first buy and the sell after the run of buys
C21_Witness ==
    /\ pc = "stats_loop"
    /\ Len(signals) = 4
    /\ [j \in 1..4 |-> signals[j].type] = <<"sell", "buy", "buy", "sell">>
    /\ validSignals = <<signals[2], signals[4]>>

-----------------------------------------------------------------------------
(* Properties of the detectors (SpecDetectors) *)

\* time, type and price of the signals of a list
Cores(s) == [k \in 1..Len(s) |-> [time |-> s[k].time, type |-> s[k].type, price |-> s[k].price]]

CoreAt(candle, type) == [time |-> candle.time, type |-> type, price |-> candle.close]

\* the EMA-cross rule at bar j (0-based, j >= 1)
EmaBuyAt(d, fast, slow, trend, j) ==
    /\ Le(At(fast, j - 1).value, At(slow, j - 1).value)
    /\ Gt(At(fast, j).value, At(slow, j).value)
    /\ Gt(At(d, j).close, At(trend, j).value)
    /\ Gt(At(d, j).close, At(d, j).open)

EmaSellAt(d, fast, slow, trend, j) ==
    /\ Ge(At(fast, j - 1).value, At(slow, j - 1).value)
    /\ Lt(At(fast, j).value, At(slow, j).value)
    /\ Le(At(d, j).close, At(trend, j).value)
    /\ Lt(At(d, j).close, At(d, j).open)

\* returned holds one signal per bar the rule selects, in bar order, and the
\* rule never selects a bar for both sides
EmaRule(d, fast, slow, trend, returned) ==
    /\ Len(fast) = Len(d) /\ Len(slow) = Len(d) /\ Len(trend) = Len(d)
    /\ \A j \in 1..(Len(d) - 1) :
           ~(EmaBuyAt(d, fast, slow, trend, j) /\ EmaSellAt(d, fast, slow, trend, j))
    /\ Cores(returned) =
           Flatten([j \in 1..(Len(d) - 1) |->
                       IF EmaBuyAt(d, fast, slow, trend, j) THEN <<CoreAt(At(d, j), "buy")>>
                       ELSE IF EmaSellAt(d, fast, slow, trend, j)
                       THEN <<CoreAt(At(d, j), "sell")>>
                       ELSE << >>],
                   0, Len(d) - 1)

\* C22: on a series of at least max(fast, slow, 99) candles generateEMASignals
\* emits a buy at bar i >= 1 exactly when the fast EMA crosses from <= slow to
\* > slow, the close is above EMA99 and above the open, a sell exactly when it
\* crosses from >= slow to < slow, the close is at or below EMA99 and below the
\* open; no other bar yields a signal and no bar yields both
C22_EMACrossRule ==
    pc = "ema_signals_done" /\ Len(data) >= Max2(Max2(strategy.fastEma, strategy.slowEma), 99) =>
        EmaRule(data, calculateEMA(data, strategy.fastEma), calculateEMA(data, strategy.slowEma),
                calculateEMA(data, 99), result)

\* a cross above on a candle of a 99-candle series that closes above EMA99 and
\* above its open: one buy
C22_Witness ==
    /\ pc = "ema_signals_done"
    /\ strategy.fastEma = 7 /\ strategy.slowEma = 25
    /\ Len(data) = 99
    /\ data[99].close = R(110) /\ data[99].open = R(109)
    /\ Cores(result) = <<CoreAt(data[99], "buy")>>

\* the same cross on a candle that closes below its open: no signal
C22_CrossWithoutConfirmation ==
    /\ pc = "ema_signals_done"
    /\ strategy.fastEma = 7 /\ strategy.slowEma = 25
    /\ Len(data) = 99
    /\ data[99].close = R(110) /\ data[99].open = R(111)
    /\ result = << >>

\* the MACD-cross rule at bar j (0-based, j >= 1)
MacdBuyAt(macdData, j) ==
    /\ Le(At(macdData, j - 1).macd, At(macdData, j - 1).signal)
    /\ Gt(At(macdData, j).macd, At(macdData, j).signal)
    /\ Gt(At(macdData, j).histogram, R(0))

MacdSellAt(macdData, j) ==
    /\ Ge(At(macdData, j - 1).macd, At(macdData, j - 1).signal)
    /\ Lt(At(macdData, j).macd, At(macdData, j).signal)
    /\ Lt(At(macdData, j).histogram, R(0))

MacdRule(d, macdData, returned) ==
    /\ Len(macdData) = Len(d)
    /\ \A j \in 1..(Len(d) - 1) : ~(MacdBuyAt(macdData, j) /\ MacdSellAt(macdData, j))
    /\ Cores(returned) =
           Flatten([j \in 1..(Len(d) - 1) |->
                       (IF MacdBuyAt(macdData, j) THEN <<CoreAt(At(d, j), "buy")>> ELSE << >>)
                       \o
                       (IF MacdSellAt(macdData, j) THEN <<CoreAt(At(d, j), "sell")>> ELSE << >>)],
                   0, Len(d) - 1)

\* C24: on a series of at least 26 candles generateMACDSignals emits a buy at bar
\* i >= 1 exactly when macd crosses from <= signal to > signal with a positive
\* histogram, a sell exactly when it crosses from >= signal to < signal with a
\* negative histogram; each signal carries the time and close of candle i and no
\* bar yields both
C24_MACDCrossRule ==
    pc = "macd_signals_done" /\ Len(data) >= 26 => MacdRule(data, calculateMACD(data), result)

\* a flat run followed by a candle that closes lower: one sell, on that candle
C24_Witness ==
    /\ pc = "macd_signals_done"
    /\ Len(data) = 41
    /\ data[41].close = R(90)
    /\ Cores(result) = <<CoreAt(data[41], "sell")>>

-----------------------------------------------------------------------------
(* The RSI-divergence detector on series with a late move (SpecDivergence) *)

\* the close of candle j of a series that is flat at 100 up to candle start - 1,
\* moves by m at candle start, by s1 and by s2 at the next two, and is flat again
\* up to its last candle, start + 7
MoveClose(j, start, m, s1, s2) ==
    100 + (IF j >= start THEN m ELSE 0) + (IF j >= start + 1 THEN s1 ELSE 0)
        + (IF j >= start + 2 THEN s2 ELSE 0)

\* candle j opens at the previous close; its low and high lie w further out than
\* one below and one above its body
WickCandle(j, o, c, w) == Kline(j * Day, o, Max2(o, c) + 1 + w, Min2(o, c) - 1 - w, c, 1000)

\* the candle whose low and high the detector reads at its first loop index for
\* period 14, and the candle whose RSI value it reads there
EarlyBar == 14

LateBar == 28

MoveSeries(start, m, s1, s2, wEarly, wLate) ==
    [k \in 1..(start + 8) |->
        WickCandle(k - 1,
                   IF k = 1 THEN 100 ELSE MoveClose(k - 2, start, m, s1, s2),
                   MoveClose(k - 1, start, m, s1, s2),
                   IF k - 1 = EarlyBar THEN wEarly ELSE IF k - 1 = LateBar THEN wLate ELSE 0)]

DivergenceSeries ==
    {MoveSeries(start, m, s1, s2, wEarly, wLate) :
        start \in {26, 27}, m \in {-10, 10},
        s1 \in {-1, 0, 1}, s2 \in {-1, 0, 1}, wEarly \in {0, 1}, wLate \in {0, 2}}

InitDivergence ==
    /\ pc = "indicator_call"
    /\ data \in DivergenceSeries
    /\ strategy = Idle /\ now = 0 /\ period = 0 /\ result = Idle
    /\ signals = << >> /\ initialCapital = R(0)
    /\ StatsIdle
    /\ UiIdle

NextDivergence == CallRSISignals

SpecDivergence == InitDivergence /\ [][NextDivergence]_vars

-----------------------------------------------------------------------------
(* Properties of the RSI-divergence detector (SpecDivergence) *)

\* the divergence rule on two consecutive RSI values and the two candles they
\* are compared with
RsiBuy(rsi, prevRsi, candle, prevCandle) ==
    /\ Lt(rsi, R(30)) /\ Lt(prevRsi, R(30))
    /\ Lt(candle.low, prevCandle.low)
    /\ Gt(rsi, prevRsi)

RsiSell(rsi, prevRsi, candle, prevCandle) ==
    /\ Gt(rsi, R(70)) /\ Gt(prevRsi, R(70))
    /\ Gt(candle.high, prevCandle.high)
    /\ Lt(rsi, prevRsi)

RsiRuleAt(rsi, prevRsi, candle, prevCandle) ==
    (IF RsiBuy(rsi, prevRsi, candle, prevCandle) THEN <<CoreAt(candle, "buy")>> ELSE << >>)
    \o
    (IF RsiSell(rsi, prevRsi, candle, prevCandle) THEN <<CoreAt(candle, "sell")>> ELSE << >>)

\* RSI[i] read as the RSI value of bar i: bars p + 1 .. Len(d) - 1 have a value
\* and a predecessor with a value, the value of bar j being rsiValues[j - p]
RsiRuleByBar(d, p, rsiValues, returned) ==
    /\ \A j \in p..(Len(d) - 1) : At(rsiValues, j - p).time = At(d, j).time
    /\ Cores(returned) =
           Flatten([k \in 1..(Len(d) - 1 - p) |->
                       RsiRuleAt(At(rsiValues, k).value, At(rsiValues, k - 1).value,
                                 At(d, k + p), At(d, k + p - 1))],
                   0, Len(d) - 1 - p)

\* RSI[i] read as element i of the RSI series, compared with candle i
RsiRuleByIndex(d, rsiValues, returned) ==
    Cores(returned) =
        Flatten([k \in 1..(Len(rsiValues) - 1) |->
                    RsiRuleAt(At(rsiValues, k).value, At(rsiValues, k - 1).value,
                              At(d, k), At(d, k - 1))],
                0, Len(rsiValues) - 1)

RsiRule(d, p, rsiValues, returned) ==
    RsiRuleByBar(d, p, rsiValues, returned) \/ RsiRuleByIndex(d, rsiValues, returned)

\* C23: on a series of at least period + 20 candles generateRSISignals emits a
\* buy for bar i exactly when RSI[i] < 30, RSI[i-1] < 30, low[i] < low[i-1] and
\* RSI[i] > RSI[i-1], a sell exactly when RSI[i] > 70, RSI[i-1] > 70,
\* high[i] > high[i-1] and RSI[i] < RSI[i-1], for every bar that has an RSI value
\* and a predecessor with one, an RSI of 0 included, whatever the 20-period SMA;
\* RSI[i] being the RSI value of bar i or element i of the RSI series
C23_RSIDivergenceRule ==
    pc = "rsi_signals_done" /\ Len(data) >= period + 20 =>
        RsiRule(data, period, calculateRSI(data, period), result)

\* the RSI point of rsiValues that carries the time of candle j, if any
RsiPointsOf(d, rsiValues, j) ==
    {k \in 1..Len(rsiValues) : rsiValues[k].time = At(d, j).time}

\* the signal is the outcome of the divergence test on candles j and j - 1 and
\* the RSI points that carry their times
DecidedOnSameBar(d, rsiValues, signal, j) ==
    \E k \in RsiPointsOf(d, rsiValues, j), prev \in RsiPointsOf(d, rsiValues, j - 1) :
        IF signal.type = "buy"
        THEN RsiBuy(rsiValues[k].value, rsiValues[prev].value, At(d, j), At(d, j - 1))
        ELSE RsiSell(rsiValues[k].value, rsiValues[prev].value, At(d, j), At(d, j - 1))

SignalsDecidedOnSameBar(d, rsiValues, returned) ==
    \A n \in 1..Len(returned) :
        \E j \in 1..(Len(d) - 1) :
            /\ returned[n].time = At(d, j).time
            /\ returned[n].price = At(d, j).close
            /\ DecidedOnSameBar(d, rsiValues, returned[n], j)

\* C27: every signal generateRSISignals emits for candle i, with the time and
\* close of candle i, is decided from the RSI points whose times are those of
\* candles i and i - 1
C27_RSIAndCandleOfSameBar ==
    pc = "rsi_signals_done" =>
        SignalsDecidedOnSameBar(data, calculateRSI(data, period), result)

-----------------------------------------------------------------------------
(* generateSignals step by step (SpecFusion) *)

\* 99 candles flat at 100 up to candle 25, moving by m at candle 26 and by s1 at
\* candle 27, flat again up to candle 97 and closing at last; candle EarlyBar has
\* the longer wicks. The three detectors all emit on such a series
LateMoveSeries(m, s1, last) ==
    [k \in 1..99 |->
        WickCandle(k - 1,
                   IF k = 1 THEN 100 ELSE MoveClose(k - 2, 26, m, s1, 0),
                   IF k = 99 THEN last ELSE MoveClose(k - 1, 26, m, s1, 0),
                   IF k - 1 = EarlyBar THEN 1 ELSE 0)]

\* 97 flat candles followed by two free ones, so that the EMA-cross and the
\* MACD-cross detectors can each emit on both; series too short for any
\* detector; and series with an early move and a late one
FusionSeries ==
    Extend(97, 2) \cup {<< >>, <<FlatCandle(0)>>}
    \cup {LateMoveSeries(-1, 4, last) : last \in {93, 113}}
    \cup {LateMoveSeries(-8, 3, last) : last \in {93, 113}}

\* StrategyParams over the whole series with the simulator's volume threshold,
\* also with the optional fastEma or rsiPeriod absent
FusionStrategies ==
    LET whole == {st \in Strategies : st.timeframe = "all" /\ st.volumeThreshold = Rat(3, 2)}
        plain == {st \in whole : ~st.useVolume}
    IN  whole \cup {[st EXCEPT !.fastEma = 0] : st \in plain}
              \cup {[st EXCEPT !.rsiPeriod = 0] : st \in plain}

\* the early returns of generateSignals on fewer than two candles
ReturnNoSignals ==
    /\ pc = "signals_call"
    /\ Len(data) < 2 \/ Len(filterDataByTimeframe(data, strategy.timeframe, now)) < 2
    /\ result' = << >>
    /\ pc' = "signals_done"
    /\ UNCHANGED <<data, strategy, now, period, statsVars, uiVars>>

\* generateSignals up to the volume test: the detectors selected by
\* strategy.type have pushed their signals into the local list signals
CollectSignals ==
    /\ pc = "signals_call"
    /\ Len(data) >= 2
    /\ Len(filterDataByTimeframe(data, strategy.timeframe, now)) >= 2
    /\ signals' = detectorSignals(filterDataByTimeframe(data, strategy.timeframe, now), strategy)
    /\ pc' = "signals_collected"
    /\ UNCHANGED <<data, strategy, now, period, result, initialCapital, validSignals, i,
                   currentCapital, peakCapital, maxDrawdown, winningTrades, trades, stats, uiVars>>

\* the rest of generateSignals: the volume filter's early return, which leaves
\* the local list as the detectors pushed it, else signals.sort, which orders
\* the local list in place, and the alternation filter
ReturnSignals ==
    /\ pc = "signals_collected"
    /\ result' = returnedSignals(filterDataByTimeframe(data, strategy.timeframe, now),
                                 signals, strategy)
    /\ signals' = IF strategy.useVolume /\ Len(signals) > 0
                  THEN signals ELSE sortByTime(signals)
    /\ pc' = "signals_done"
    /\ UNCHANGED <<data, strategy, now, period, initialCapital, validSignals, i,
                   currentCapital, peakCapital, maxDrawdown, winningTrades, trades, stats, uiVars>>

InitFusion ==
    /\ pc = "signals_call"
    /\ data \in FusionSeries
    /\ strategy \in FusionStrategies
    /\ now = 100 * Day
    /\ period = 0 /\ result = Idle
    /\ signals = << >> /\ initialCapital = R(0)
    /\ StatsIdle
    /\ UiIdle

NextFusion == ReturnNoSignals \/ CollectSignals \/ ReturnSignals

SpecFusion == InitFusion /\ [][NextFusion]_vars

-----------------------------------------------------------------------------
(* Properties of the fusion of the detectors (SpecFusion) *)

\* the output of each detector on fd, empty when the strategy lacks its periods
EmaOutput(fd, st) ==
    IF st.fastEma # 0 /\ st.slowEma # 0 THEN generateEMASignals(fd, st.fastEma, st.slowEma)
    ELSE << >>

RsiOutput(fd, st) ==
    IF st.rsiPeriod # 0 THEN generateRSISignals(fd, st.rsiPeriod) ELSE << >>

FusionRule(type, emaOut, rsiOut, macdOut, collected) ==
    CASE type = "ema_cross" -> collected = emaOut
      [] type = "rsi_oversold" -> collected = rsiOut
      [] type = "macd_cross" -> collected = macdOut
      [] type = "multi" ->
            /\ Len(collected) = Len(emaOut) + Len(rsiOut) + Len(macdOut)
            /\ Slice(collected, 0, Len(emaOut)) = emaOut
            /\ Slice(collected, Len(emaOut), Len(emaOut) + Len(rsiOut)) = rsiOut
            /\ Slice(collected, Len(emaOut) + Len(rsiOut), Len(collected)) = macdOut

FusionRuleOn(fd, st, collected) ==
    FusionRule(st.type, EmaOutput(fd, st), RsiOutput(fd, st), generateMACDSignals(fd),
               collected)

\* C25: for the strategy type "multi" the signals handed to the volume filter
\* and the alternation pass are the outputs of the enabled detectors on the
\* filtered series, concatenated in the order EMA-cross, RSI-divergence,
\* MACD-cross with nothing added, removed or merged; for a single type they are
\* that detector's output
C25_FusionIsConcatenation ==
    pc = "signals_collected" =>
        FusionRuleOn(filterDataByTimeframe(data, strategy.timeframe, now), strategy, signals)

\* the three detectors have all emitted on a series that moves at candles 26 and
\* 27 and falls at its last candle: three EMA-cross signals, then the RSI
\* signal of candle 14, earlier than all of them, then three MACD-cross signals
C25_Witness ==
    /\ pc = "signals_collected"
    /\ strategy.type = "multi"
    /\ Len(data) = 99
    /\ [j \in 1..Len(signals) |-> signals[j].time] =
           <<26 * Day, 27 * Day, 98 * Day, 14 * Day, 26 * Day, 27 * Day, 41 * Day>>
    /\ [j \in 1..Len(signals) |-> signals[j].type] =
           <<"sell", "buy", "sell", "sell", "sell", "buy", "sell">>
    /\ signals[4].reason = "RSI bearish divergence"
    /\ signals[1].reason # signals[5].reason

-----------------------------------------------------------------------------
(* Properties of the order of the returned signals (SpecFusion) *)

\* the position of the detector that wrote a signal in the order EMA-cross,
\* RSI-divergence, MACD-cross, read from the signal's reason
DetectorRank(signal) ==
    IF signal.reason \in {"RSI bullish divergence", "RSI bearish divergence"} THEN 2
    ELSE IF signal.reason \in {"MACD crossed above signal line with positive momentum",
                               "MACD crossed below signal line with negative momentum"}
    THEN 3
    ELSE 1

\* non-decreasing in time, signals of equal time in detector order
OrderedByTimeThenDetector(s) ==
    \A j \in 1..(Len(s) - 1) :
        \/ s[j].time < s[j + 1].time
        \/ s[j].time = s[j + 1].time /\ DetectorRank(s[j]) <= DetectorRank(s[j + 1])

\* C26: for every strategy configuration, "multi" and the volume filter
\* included, the list generateSignals returns is in non-decreasing time order,
\* signals of equal time following the detector order EMA-cross,
\* RSI-divergence, MACD-cross
C26_ReturnedInTimeThenDetectorOrder ==
    pc = "signals_done" => OrderedByTimeThenDetector(result)

-----------------------------------------------------------------------------
(* Invariants of the running calculateTradingStats call (Spec) *)

\* the sum of the profit of the trades recorded so far
ProfitSum(tradeList) == SumNums([k \in 1..Len(tradeList) |-> tradeList[k].profit])

PositiveInputs ==
    /\ Gt(initialCapital, R(0))
    /\ \A k \in 1..Len(signals) : Gt(signals[k].price, R(0))

\* C28 as stated: with strictly positive prices and initial capital, after each
\* trade calculateTradingStats processes, currentCapital > 0, peakCapital is at
\* least currentCapital and initialCapital, 0 <= maxDrawdown < 100,
\* winningTrades is at most the number of trades, and currentCapital -
\* initialCapital is the sum of the trades' profit; at return totalProfit =
\* finalCapital - initialCapital is that sum
C28_TotalProfitIsSumOfProfits ==
    PositiveInputs =>
        /\ pc = "stats_loop" =>
               /\ Gt(currentCapital, R(0))
               /\ Ge(peakCapital, currentCapital)
               /\ Ge(peakCapital, initialCapital)
               /\ Ge(maxDrawdown, R(0)) /\ Lt(maxDrawdown, R(100))
               /\ winningTrades <= Len(trades)
               /\ Sub(currentCapital, initialCapital) = ProfitSum(trades)
        /\ pc = "stats_done" =>
               /\ stats.totalProfit = Sub(stats.finalCapital, initialCapital)
               /\ stats.totalProfit = ProfitSum(stats.trades)
               /\ Gt(stats.finalCapital, R(0))
               /\ Ge(stats.maxDrawdown, R(0)) /\ Lt(stats.maxDrawdown, R(100))
               /\ stats.winningTrades <= stats.totalTrades

\* capital with the profit of each trade added to it in turn
CapitalPlusProfits(capital, tradeList) ==
    IF tradeList = << >> THEN capital
    ELSE RunningSums([k \in 1..Len(tradeList) |-> tradeList[k].profit],
                     capital, 0, Len(tradeList))[Len(tradeList)]

\* a number that is 0 or in the range of the normal doubles: not a subnormal
\* number, an infinity or NaN
OrdinaryNumber(x) == IsFinite(x) /\ (IsZero(x) \/ x.hi >= 2^24)

\* a call on a positive capital and positive prices within a factor 2^40 of one
\* another in which no quantity, profit or capital of the trades of tradeList
\* has overflowed or underflowed
OrdinaryRun(tradeList) ==
    /\ PositiveInputs
    /\ OrdinaryNumber(initialCapital)
    /\ \A j \in 1..Len(signals) : \A k \in 1..Len(signals) :
           Le(signals[j].price, Mul(signals[k].price, PowerOfTwo(40)))
    /\ \A k \in 1..Len(tradeList) :
           /\ OrdinaryNumber(tradeList[k].quantity)
           /\ OrdinaryNumber(tradeList[k].profit)
           /\ OrdinaryNumber(tradeList[k].capitalAfterTrade)

\* C28 amended: on a positive capital and positive prices within a factor 2^40
\* of one another, as long as no quantity, profit or capital has overflowed or
\* underflowed, after each trade calculateTradingStats processes,
\* currentCapital > 0, peakCapital is at least currentCapital and
\* initialCapital, 0 <= maxDrawdown <= 100, winningTrades is at most the number
\* of trades, and currentCapital is initialCapital with the profit of each
\* trade added in turn; at return totalProfit = finalCapital - initialCapital,
\* finalCapital being that sum
C28_CapitalAndDrawdownInvariants ==
    /\ pc = "stats_loop" /\ OrdinaryRun(trades) =>
           /\ Gt(currentCapital, R(0))
           /\ Ge(peakCapital, currentCapital)
           /\ Ge(peakCapital, initialCapital)
           /\ Ge(maxDrawdown, R(0)) /\ Le(maxDrawdown, R(100))
           /\ winningTrades <= Len(trades)
           /\ currentCapital = CapitalPlusProfits(initialCapital, trades)
    /\ pc = "stats_done" /\ OrdinaryRun(stats.trades) =>
           /\ stats.totalProfit = Sub(stats.finalCapital, initialCapital)
           /\ stats.finalCapital = CapitalPlusProfits(initialCapital, stats.trades)
           /\ Gt(stats.finalCapital, R(0))
           /\ Ge(stats.maxDrawdown, R(0)) /\ Le(stats.maxDrawdown, R(100))
           /\ stats.winningTrades <= stats.totalTrades

\* two trades that each divide the capital by 2^30: the capital is still
\* positive and nothing has underflowed, but peakCapital - currentCapital has
\* rounded to peakCapital and the drawdown is 100
C28_Witness ==
    /\ pc = "stats_loop"
    /\ OrdinaryRun(trades)
    /\ Len(trades) = 2
    /\ Gt(currentCapital, R(0))
    /\ Lt(currentCapital, peakCapital)
    /\ maxDrawdown = R(100)

\* a winning trade followed by a losing one, after which what the capital has
\* gained is not the sum of the two profits
ProfitsDoNotAddUp ==
    /\ pc = "stats_loop"
    /\ OrdinaryRun(trades)
    /\ Len(trades) = 2
    /\ winningTrades = 1
    /\ Gt(peakCapital, initialCapital)
    /\ Gt(maxDrawdown, R(0))
    /\ Sub(currentCapital, initialCapital) # ProfitSum(trades)

\* outside the ordinary runs the capital can fall below 0 and the drawdown
\* exceed 100
CapitalBelowZero ==
    /\ pc = "stats_loop"
    /\ PositiveInputs
    /\ Lt(currentCapital, R(0))

-----------------------------------------------------------------------------
(* TradingDashboard (src/src/components/ui/StatCard.tsx) and the simulator it
   feeds (SpecDashboard) *)

Hour == 60 * 60

\* a month of 30 days stands for the calendar month of the "1M" klines
Month == 30 * Day

\* the keys of INTERVALS
IntervalKeys == {"1d", "1M", "1h"}

\* the length of one kline of an interval
SpanOf(interval) ==
    CASE interval = "1h" -> Hour [] interval = "1d" -> Day [] interval = "1M" -> Month

\* the open time of the kline of the interval that is open at time t
OpenTimeAt(interval, t) == (t \div SpanOf(interval)) * SpanOf(interval)

\* number of klines in a historical-data response (INTERVALS[key].limit)
HistoryLimit == 2

\* number of times the user switches the interval
MaxSwitches == 1

\* number of closed-candle messages of the stream
MaxCloses == 1

\* Date.now() / 1000 when the dashboard is mounted: the start of a month
StartClock == 4 * Month

\* a kline as the exchange reports it: all prices of the model are flat
ReportedKline(t) == Kline(t, 100, 101, 99, 100, 1000)

\* formattedData of fetchHistoricalData: the last HistoryLimit klines of the
\* interval up to endTime, in time order; withOpen tells whether the exchange
\* includes the kline that is still open at endTime
Response(interval, endTime, withOpen) ==
    LET last == OpenTimeAt(interval, endTime) - (IF withOpen THEN 0 ELSE SpanOf(interval))
    IN  [j \in 1..HistoryLimit |-> ReportedKline(last - (HistoryLimit - j) * SpanOf(interval))]

\* number of times the user changes a setting of the simulator
MaxSettings == 2

\* number of clicks of the user on the chart
MaxClicks == 2

\* the initial values of the simulator's useState hooks for its settings
InitialSettings ==
    [strategyType |-> "ema_cross", fastEma |-> 7, slowEma |-> 25, rsiPeriod |-> 14,
     rsiOverbought |-> 70, rsiOversold |-> 30, useVolume |-> FALSE,
     volumeThreshold |-> Rat(3, 2)]

\* the StrategyParams runSimulation builds from the simulator's settings: it
\* sets no timeframe
SimulatorStrategy ==
    [type |-> simulator.strategyType, fastEma |-> simulator.fastEma,
     slowEma |-> simulator.slowEma, rsiPeriod |-> simulator.rsiPeriod,
     rsiOverbought |-> simulator.rsiOverbought, rsiOversold |-> simulator.rsiOversold,
     useVolume |-> simulator.useVolume, volumeThreshold |-> simulator.volumeThreshold,
     timeframe |-> "undefined"]

\* the data prop of the TradingSimulator
SimulatorData ==
    IF Len(dashboard.simulationData) > 0 THEN dashboard.simulationData
    ELSE dashboard.candlesticks

\* the dashboard after its first render and effect: no candle, the request for
\* the "1d" history in flight, the "1d" stream open, the simulator showing its
\* initial settings and no result
InitDashboard ==
    /\ pc = "dashboard"
    /\ now = StartClock
    /\ dashboard = [candlesticks |-> << >>, currentPrice |-> R(0), priceChange |-> R(0),
                    interval |-> "1d", wsConnection |-> "1d", signals |-> << >>,
                    selectedTimeRange |-> << >>, simulationData |-> << >>,
                    isSelecting |-> FALSE, selectionStart |-> 0]
    /\ simulator = InitialSettings
    /\ requests = {[id |-> 1, interval |-> "1d", endTime |-> StartClock]}
    /\ issued = [count |-> 1, applied |-> {}, closes |-> 0, settings |-> 0, clicks |-> 0,
                 origin |-> << >>]
    /\ data = Idle /\ strategy = Idle /\ period = 0 /\ result = Idle
    /\ signals = << >> /\ initialCapital = R(0)
    /\ StatsIdle

\* a handler that calls no function of the engine: data, strategy and result
\* hold the arguments and the value of the engine call of the handler that ran
\* last, and nothing once another handler has run
NoEngineCall ==
    /\ data' = Idle /\ strategy' = Idle /\ result' = Idle
    /\ UNCHANGED <<pc, period>>

\* the user picks another interval: setInterval, then the effect's cleanup closes
\* the stream, and the effect requests the history of the new interval and opens
\* its stream
SwitchInterval ==
    /\ pc = "dashboard"
    /\ issued.count <= MaxSwitches
    /\ \E value \in IntervalKeys \ {dashboard.interval} :
        /\ dashboard' = [dashboard EXCEPT !.interval = value, !.wsConnection = value]
        /\ requests' = requests \cup
               {[id |-> issued.count + 1, interval |-> value, endTime |-> now]}
    /\ issued' = [issued EXCEPT !.count = @ + 1]
    /\ NoEngineCall
    /\ UNCHANGED <<now, statsVars, simulator>>

\* a response with klines arrives: fetchHistoricalData replaces the candle series
\* and sets the price from the last kline, whatever the interval selected by then
FetchCompletes ==
    /\ pc = "dashboard"
    /\ \E r \in requests, withOpen \in BOOLEAN :
        LET formattedData == Response(r.interval, r.endTime, withOpen)
            lastKline == formattedData[Len(formattedData)]
        IN  /\ dashboard' = [dashboard EXCEPT
                   !.candlesticks = formattedData,
                   !.currentPrice = lastKline.close,
                   !.priceChange =
                       Mul(Div(Sub(lastKline.close, lastKline.open), lastKline.open), R(100))]
            /\ requests' = requests \ {r}
            /\ issued' = [issued EXCEPT !.applied = @ \cup {r.id},
                                        !.origin = [j \in 1..Len(formattedData) |-> r.interval]]
    /\ NoEngineCall
    /\ UNCHANGED <<now, statsVars, simulator>>

\* a request fails and the catch block logs the error. Either fetch, json or map
\* throws, before any setter has run; or the answer is the empty array (empty):
\* setCandlesticks([]) has run when reading formattedData[-1].close throws, so
\* the series is emptied and the price stays
FetchFails ==
    /\ pc = "dashboard"
    /\ \E r \in requests, empty \in BOOLEAN :
        /\ requests' = requests \ {r}
        /\ dashboard' = IF empty THEN [dashboard EXCEPT !.candlesticks = << >>]
                        ELSE dashboard
        /\ issued' = IF empty THEN [issued EXCEPT !.origin = << >>] ELSE issued
    /\ NoEngineCall
    /\ UNCHANGED <<now, statsVars, simulator>>

\* ws.onmessage with k.x set: the kline of the stream's interval that was open
\* has closed; the oldest candle is dropped and the closed one appended
CandleCloses ==
    /\ pc = "dashboard"
    /\ issued.closes < MaxCloses
    /\ LET interval == dashboard.wsConnection
           newCandle == ReportedKline(OpenTimeAt(interval, now))
           prev == dashboard.candlesticks
       IN  /\ now' = OpenTimeAt(interval, now) + SpanOf(interval)
           /\ dashboard' = [dashboard EXCEPT
                  !.candlesticks = Slice(prev, 1, Len(prev)) \o <<newCandle>>,
                  !.currentPrice = newCandle.close,
                  !.priceChange =
                      Mul(Div(Sub(newCandle.close, newCandle.open), newCandle.open), R(100))]
           /\ issued' = [issued EXCEPT
                  !.closes = @ + 1,
                  !.origin = Slice(@, 1, Len(@)) \o <<interval>>]
    /\ NoEngineCall
    /\ UNCHANGED <<statsVars, simulator, requests>>

\* ws.onmessage with k.x unset: only the price is updated
StreamUpdate ==
    /\ pc = "dashboard"
    /\ LET open == ReportedKline(OpenTimeAt(dashboard.wsConnection, now))
       IN  dashboard' = [dashboard EXCEPT
               !.currentPrice = open.close,
               !.priceChange = Mul(Div(Sub(open.close, open.open), open.open), R(100))]
    /\ NoEngineCall
    /\ UNCHANGED <<now, statsVars, simulator, requests, issued>>

\* handleTimeRangeSelect(from, to) of the dashboard: the candles of the series
\* within the range are kept as simulationData and the range is stored, unless
\* no candle is within it
handleTimeRangeSelect(from, to) ==
    LET selectedData ==
            Filter(dashboard.candlesticks,
                   [j \in 1..Len(dashboard.candlesticks) |->
                       /\ dashboard.candlesticks[j].time >= from
                       /\ dashboard.candlesticks[j].time <= to])
    IN  IF Len(selectedData) > 0
        THEN [dashboard EXCEPT !.selectedTimeRange = <<from, to>>,
                               !.simulationData = selectedData]
        ELSE dashboard

\* handleClick of the chart, param.time being the time of a candle of the series
\* shown: the first click of a selection keeps the time in selectionStart (0
\* stands for null, which the handler does not tell from 0), the second one
\* calls handleTimeRangeSelect with the two times in order. Any other handler
\* of the dashboard may run between the two clicks
handleClick ==
    /\ pc = "dashboard"
    /\ issued.clicks < MaxClicks
    /\ \E j \in 1..Len(dashboard.candlesticks) :
        LET time == dashboard.candlesticks[j].time
            selectionStart == dashboard.selectionStart
            selected ==
                IF selectionStart # 0
                THEN handleTimeRangeSelect(Min2(selectionStart, time),
                                           Max2(selectionStart, time))
                ELSE dashboard
        IN  /\ time # 0
            /\ dashboard' =
                   IF ~dashboard.isSelecting
                   THEN [dashboard EXCEPT !.selectionStart = time, !.isSelecting = TRUE]
                   ELSE [selected EXCEPT !.isSelecting = FALSE, !.selectionStart = 0]
    /\ issued' = [issued EXCEPT !.clicks = @ + 1]
    /\ NoEngineCall
    /\ UNCHANGED <<now, statsVars, simulator, requests>>

\* the Select of the strategy, with its four SelectItems: setStrategyType(value)
SetStrategyType ==
    /\ pc = "dashboard"
    /\ issued.settings < MaxSettings
    /\ \E value \in {"ema_cross", "rsi_oversold", "macd_cross", "multi"}
                    \ {simulator.strategyType} :
        simulator' = [simulator EXCEPT !.strategyType = value]
    /\ issued' = [issued EXCEPT !.settings = @ + 1]
    /\ NoEngineCall
    /\ UNCHANGED <<now, statsVars, dashboard, requests>>

\* the Switch of the volume filter: setUseVolume(checked)
SetUseVolume ==
    /\ pc = "dashboard"
    /\ issued.settings < MaxSettings
    /\ simulator' = [simulator EXCEPT !.useVolume = ~@]
    /\ issued' = [issued EXCEPT !.settings = @ + 1]
    /\ NoEngineCall
    /\ UNCHANGED <<now, statsVars, dashboard, requests>>

\* the Select of the fast EMA, rendered for ema_cross and multi, with its
\* SelectItems 7 and 25: setFastEma(Number(v))
SetFastEma ==
    /\ pc = "dashboard"
    /\ issued.settings < MaxSettings
    /\ simulator.strategyType \in {"ema_cross", "multi"}
    /\ \E v \in {7, 25} \ {simulator.fastEma} :
        simulator' = [simulator EXCEPT !.fastEma = v]
    /\ issued' = [issued EXCEPT !.settings = @ + 1]
    /\ NoEngineCall
    /\ UNCHANGED <<now, statsVars, dashboard, requests>>

\* the Select of the slow EMA, rendered for ema_cross and multi, with its
\* SelectItems 25 and 99: setSlowEma(Number(v))
SetSlowEma ==
    /\ pc = "dashboard"
    /\ issued.settings < MaxSettings
    /\ simulator.strategyType \in {"ema_cross", "multi"}
    /\ \E v \in {25, 99} \ {simulator.slowEma} :
        simulator' = [simulator EXCEPT !.slowEma = v]
    /\ issued' = [issued EXCEPT !.settings = @ + 1]
    /\ NoEngineCall
    /\ UNCHANGED <<now, statsVars, dashboard, requests>>

\* the volume slider (min 1, max 3, step 0.1), rendered while the volume filter
\* is on, moved to one of its ends or to 2.5:
\* setVolumeThreshold(Number(e.target.value))
SetVolumeThreshold ==
    /\ pc = "dashboard"
    /\ issued.settings < MaxSettings
    /\ simulator.useVolume
    /\ \E value \in {R(1), Rat(5, 2), R(3)} \ {simulator.volumeThreshold} :
        simulator' = [simulator EXCEPT !.volumeThreshold = value]
    /\ issued' = [issued EXCEPT !.settings = @ + 1]
    /\ NoEngineCall
    /\ UNCHANGED <<now, statsVars, dashboard, requests>>

\* runSimulation of the TradingSimulator: generateSignals is called on the data
\* prop and the StrategyParams built from the settings, the signals and their
\* statistics are stored and the signals handed to the dashboard
\* (onSignalsGenerated = setSignals). Both buttons stay enabled whatever the
\* simulator shows
RunSimulation ==
    /\ pc = "dashboard"
    /\ data' = SimulatorData
    /\ strategy' = SimulatorStrategy
    /\ result' = generateSignals(SimulatorData, SimulatorStrategy, now)
    /\ signals' = result'
    /\ initialCapital' = DefaultCapital
    /\ stats' = calculateTradingStats(result', DefaultCapital)
    /\ dashboard' = [dashboard EXCEPT !.signals = result']
    /\ UNCHANGED <<pc, now, period, validSignals, i, currentCapital, peakCapital,
                   maxDrawdown, winningTrades, trades, simulator, requests, issued>>

\* resetSimulation of the TradingSimulator: the result is cleared
ResetSimulation ==
    /\ pc = "dashboard"
    /\ NoEngineCall
    /\ signals' = << >> /\ initialCapital' = R(0)
    /\ stats' = Idle
    /\ dashboard' = [dashboard EXCEPT !.signals = << >>]
    /\ UNCHANGED <<now, validSignals, i, currentCapital, peakCapital,
                   maxDrawdown, winningTrades, trades, simulator, requests, issued>>

NextDashboard ==
    \/ SwitchInterval \/ FetchCompletes \/ FetchFails \/ CandleCloses \/ StreamUpdate
    \/ handleClick \/ SetStrategyType \/ SetUseVolume \/ SetFastEma \/ SetSlowEma
    \/ SetVolumeThreshold \/ RunSimulation \/ ResetSimulation

SpecDashboard == InitDashboard /\ [][NextDashboard]_vars

-----------------------------------------------------------------------------
(* Properties of the dashboard's candle series (SpecDashboard) *)

\* every candle of the dashboard's series came from a response or a stream of
\* the interval that is selected now
CandlesOfSelectedInterval ==
    \A j \in 1..Len(issued.origin) : issued.origin[j] = dashboard.interval

\* the user has switched the interval and the response to the request made for
\* the interval selected last has been applied
LatestResponseApplied == issued.count > 1 /\ issued.count \in issued.applied

\* C29: after a switch of the interval, once the response for the newly selected
\* interval has been applied, the candle series holds only candles of that
\* interval: no response requested for an earlier interval overwrites it
C29_StaleResponseNeverOverwrites == LatestResponseApplied => CandlesOfSelectedInterval

\* the candles of a series have strictly increasing times
StrictlyIncreasingInTime(series) ==
    \A j \in 1..(Len(series) - 1) : series[j].time < series[j + 1].time

\* C30: the candle series runSimulation passes to generateSignals is strictly
\* increasing in time, with no timestamp twice
C30_SeriesPassedIsStrictlyIncreasing ==
    pc = "dashboard" /\ strategy # Idle => StrictlyIncreasingInTime(data)

====
